---- MODULE Spec2Model ----
(***************************************************************************)
(* The lab manual's page script: the document-ready passes over the        *)
(* TeX4ht export, the conversion of the static checklist into an           *)
(* interactive form, the signature canvas, the localStorage persistence    *)
(* and the certificate export.                                             *)
(*                                                                         *)
(* JavaScript strings are sequences of one-character strings (a few        *)
(* multi-character tokens stand for fixed runs of characters that no code  *)
(* looks inside).  The document is the sequence of the children of the     *)
(* body; an element's own children are its kids.                           *)
(***************************************************************************)
EXTENDS Integers, Sequences, FiniteSets, TLC

\* ------------------------------------------------------------------ text

WS == {" ", "\n", "\r", "\t"}

UpperCase == <<"A", "B", "C", "D", "E", "F", "G", "H", "I", "J", "K", "L", "M", "N", "O", "P", "Q", "R", "S", "T", "U", "V", "W", "X", "Y", "Z">>

LowerCase == <<"a", "b", "c", "d", "e", "f", "g", "h", "i", "j", "k", "l", "m", "n", "o", "p", "q", "r", "s", "t", "u", "v", "w", "x", "y", "z">>

Digits == {"0", "1", "2", "3", "4", "5", "6", "7", "8", "9"}

LowerChar(c) ==
    IF \E i \in 1..Len(UpperCase) : UpperCase[i] = c
    THEN LowerCase[CHOOSE i \in 1..Len(UpperCase) : UpperCase[i] = c]
    ELSE c

\* a function on 1..n, as the sequence of its values
seq(f) == SubSeq(f, 1, Len(f))

\* String.prototype.toLowerCase
toLowerCase(s) == seq([i \in 1..Len(s) |-> LowerChar(s[i])])

\* String.prototype.includes
includes(s, sub) ==
    \E i \in 1..(Len(s) - Len(sub) + 1) : SubSeq(s, i, i + Len(sub) - 1) = sub

\* String.prototype.trim
trim(s) ==
    LET keep == {i \in 1..Len(s) : s[i] \notin WS}
    IN  IF keep = {} THEN <<>>
        ELSE SubSeq(s, CHOOSE i \in keep : \A j \in keep : i <= j,
                       CHOOSE i \in keep : \A j \in keep : i >= j)

\* the positions 1..n, in order
positions(n) == seq([i \in 1..n |-> i])

\* item.replace(/\s+/g, ' '): each run of whitespace becomes one space
collapseWhitespace(s) ==
    LET idx == SelectSeq(positions(Len(s)), LAMBDA i : s[i] \notin WS \/ i = 1 \/ s[i - 1] \notin WS)
    IN  seq([k \in 1..Len(idx) |-> IF s[idx[k]] \in WS THEN " " ELSE s[idx[k]]])

\* the literal strings the code compares heading text with
StrChecklist == <<"c", "h", "e", "c", "k", "l", "i", "s", "t">>

StrSignature == <<"s", "i", "g", "n", "a", "t", "u", "r", "e">>

\* n copies of the character c
Rep(c, n) == [i \in 1..n |-> c]

\* ------------------------------------------------------------------- DOM

Txt(s) == [tag |-> "#text", text |-> s, cls |-> "", id |-> "", hidden |-> FALSE, kids |-> <<>>]

El(t, c, k) == [tag |-> t, text |-> <<>>, cls |-> c, id |-> "", hidden |-> FALSE, kids |-> k]

ElId(t, c, i, k) == [tag |-> t, text |-> <<>>, cls |-> c, id |-> i, hidden |-> FALSE, kids |-> k]

isText(n) == n.tag = "#text"

isElement(n) == n.tag # "#text"

RECURSIVE Concat(_)
Concat(ss) == IF ss = <<>> THEN <<>> ELSE Head(ss) \o Concat(Tail(ss))

\* Node.textContent
RECURSIVE textContent(_)
textContent(n) ==
    IF isText(n) THEN n.text
    ELSE Concat([i \in 1..Len(n.kids) |-> textContent(n.kids[i])])

isChecklistHeading_either(n) ==
    /\ n.tag = "H2"
    /\ \/ includes(toLowerCase(textContent(n)), StrChecklist)
       \/ includes(toLowerCase(textContent(n)), StrSignature)

\* the heading predicate of the checklist section
isChecklistHeading(n) ==
    /\ n.tag = "H2"
    /\ includes(toLowerCase(textContent(n)), StrChecklist)
    /\ includes(toLowerCase(textContent(n)), StrSignature)

\* ------------------------------------------------- document-ready passes

\* String.prototype.split on one-character separators: the parts
\* before, between and after the separators of s
split(s, seps) ==
    LET at == SelectSeq(positions(Len(s)), LAMBDA i : s[i] \in seps)
    IN  seq([k \in 1..(Len(at) + 1) |->
                SubSeq(s, (IF k = 1 THEN 1 ELSE at[k - 1] + 1), (IF k > Len(at) THEN Len(s) ELSE at[k] - 1))])

\* text.replace(/\.+$/, '')
RECURSIVE stripTrailingDots(_)
stripTrailingDots(s) ==
    IF s # <<>> /\ s[Len(s)] = "." THEN stripTrailingDots(SubSeq(s, 1, Len(s) - 1)) ELSE s

isNumber(s) == s # <<>> /\ \A i \in 1..Len(s) : s[i] \in Digits

isMalformedNumber_one(text) ==
    LET parts == split(stripTrailingDots(text), {"."})
    IN  /\ Len(parts) >= 2
        /\ \A i \in 1..Len(parts) : isNumber(parts[i])

\* /^\d+(\.\d+){2,}\.*$/.test(text): a number, two or more dotted numbers,
\* then any number of dots
isMalformedNumber(text) ==
    LET parts == split(stripTrailingDots(text), {"."})
    IN  /\ Len(parts) >= 3
        /\ \A i \in 1..Len(parts) : isNumber(parts[i])

fixedNumber(text) ==
    LET parts == split(stripTrailingDots(text), {"."})
    IN  parts[Len(parts)] \o <<".">>

RECURSIVE fixEnumerationNode(_)
fixEnumerationNode(n) ==
    IF isText(n) THEN n
    ELSE IF n.tag = "DT" /\ isMalformedNumber(trim(textContent(n)))
         THEN [n EXCEPT !.kids = <<Txt(fixedNumber(trim(textContent(n))))>>]
         ELSE [n EXCEPT !.kids = seq([i \in 1..Len(n.kids) |-> fixEnumerationNode(n.kids[i])])]

fixEnumerationNumbering(d) == seq([i \in 1..Len(d) |-> fixEnumerationNode(d[i])])

StopTags == {"H2", "SECTION", "NAV", "P", "UL", "OL", "DL"}

InlineTags == {"A", "SPAN", "LABEL", "INPUT", "MATH", "MJX-CONTAINER"}

\* the positions after position j that the sibling walk collects
RECURSIVE orphansFrom(_, _)
orphansFrom(d, j) ==
    IF j > Len(d) THEN {}
    ELSE IF isElement(d[j]) /\ d[j].tag \in StopTags THEN {}
    ELSE IF isText(d[j])
         THEN (IF trim(d[j].text) # <<>> THEN {j} ELSE {}) \cup orphansFrom(d, j + 1)
    ELSE IF d[j].tag \in InlineTags THEN {j} \cup orphansFrom(d, j + 1)
    ELSE {}

\* the elements of d at the positions of S, in order
RECURSIVE pick(_, _, _)
pick(d, S, i) ==
    IF i > Len(d) THEN <<>>
    ELSE (IF i \in S THEN <<d[i]>> ELSE <<>>) \o pick(d, S, i + 1)

wrapAfter(d, h) ==
    LET S == orphansFrom(d, h + 1)
    IN  IF S = {} THEN d
        ELSE LET first == CHOOSE i \in S : \A j \in S : i <= j
             IN  SubSeq(d, 1, first - 1)
                 \o <<El("P", "section-intro", pick(d, S, 1))>>
                 \o pick(d, (first..Len(d)) \ S, 1)

RECURSIVE wrapFrom(_, _)
wrapFrom(d, i) ==
    IF i > Len(d) THEN d
    ELSE IF d[i].tag = "H2" /\ ~isChecklistHeading(d[i]) THEN wrapFrom(wrapAfter(d, i), i + 1)
    ELSE wrapFrom(d, i + 1)

wrapOrphanedTextNodes(d) == wrapFrom(d, 1)

\* the trimmed, non-empty lines of a columns-2 div
personnelNames(text) ==
    LET lines == split(text, {"\n", "\r"})
        kept  == {i \in 1..Len(lines) : Len(trim(lines[i])) > 0}
    IN  pick([i \in 1..Len(lines) |-> trim(lines[i])], kept, 1)

RECURSIVE formatPersonnelNode(_)
formatPersonnelNode(n) ==
    IF isText(n) THEN n
    ELSE IF n.tag = "DIV" /\ n.cls = "columns-2"
         THEN LET names == personnelNames(textContent(n))
              IN  IF Len(names) = 0 THEN n
                  ELSE [n EXCEPT !.kids = [i \in 1..Len(names) |-> El("SPAN", "personnel-item", <<Txt(names[i])>>)]]
         ELSE [n EXCEPT !.kids = seq([i \in 1..Len(n.kids) |-> formatPersonnelNode(n.kids[i])])]

formatPersonnelLists(d) == seq([i \in 1..Len(d) |-> formatPersonnelNode(d[i])])

\* ------------------------------------------------------------ JS values

Str(s) == [t |-> "str", v |-> s]

Num(ds) == [t |-> "num", v |-> ds]

Bool(b) == [t |-> "bool", v |-> b]

Arr(vs) == [t |-> "arr", v |-> vs]

Obj(ms) == [t |-> "obj", v |-> ms]

Null == [t |-> "null", v |-> <<>>]

Undefined == [t |-> "undef", v |-> <<>>]

\* ToBoolean
truthy(x) ==
    CASE x.t = "str"  -> x.v # <<>>
      [] x.t = "num"  -> \E i \in 1..Len(x.v) : x.v[i] # "0"
      [] x.t = "bool" -> x.v
      [] x.t \in {"arr", "obj"} -> TRUE
      [] OTHER -> FALSE

\* x[key] for a property name; reading a property of null or undefined throws
throwsOnGet(x) == x.t \in {"null", "undef"}

getProp(x, key) ==
    IF x.t = "obj"
    THEN LET at == {i \in 1..Len(x.v) : x.v[i][1] = key}
         IN  IF at = {} THEN Undefined
             ELSE x.v[CHOOSE i \in at : \A j \in at : i >= j][2]
    ELSE Undefined

\* x[index] for a zero-based index
getIndex(x, index) ==
    CASE x.t = "arr" -> IF index < Len(x.v) THEN x.v[index + 1] ELSE Undefined
      [] x.t = "str" -> IF index < Len(x.v) THEN Str(<<x.v[index + 1]>>) ELSE Undefined
      [] x.t = "obj" -> getProp(x, <<ToString(index)>>)
      [] OTHER -> Undefined

\* ToString
RECURSIVE toStringJS(_)
toStringJS(x) ==
    CASE x.t = "str"  -> x.v
      [] x.t = "num"  -> x.v
      [] x.t = "bool" -> IF x.v THEN <<"true">> ELSE <<"false">>
      [] x.t = "null" -> <<"null">>
      [] x.t = "undef" -> <<"undefined">>
      [] x.t = "arr"  -> Concat([i \in 1..Len(x.v) |-> (IF i > 1 THEN <<",">> ELSE <<>>) \o (IF x.v[i].t \in {"null", "undef"} THEN <<>> ELSE toStringJS(x.v[i]))])
      [] OTHER -> <<"[object Object]">>

\* ----------------------------------------------------------------- JSON
\* JSON text is a sequence of tokens: the punctuation, the literals true,
\* false and null, digits, and the characters of strings between quotes.

Quote == "\""

jsonString(s) == <<Quote>> \o s \o <<Quote>>

jsonBools(bs) ==
    <<"[">> \o Concat([i \in 1..Len(bs) |-> (IF i > 1 THEN <<",">> ELSE <<>>) \o <<IF bs[i] THEN "true" ELSE "false">>]) \o <<"]">>

\* JSON.stringify({checkboxes: [...], date: "...", signature: "..."})
stringifyState(st) ==
    <<"{">> \o jsonString(<<"checkboxes">>) \o <<":">> \o jsonBools(st.checkboxes)
            \o <<",">> \o jsonString(<<"date">>) \o <<":">> \o jsonString(st.date)
            \o <<",">> \o jsonString(<<"signature">>) \o <<":">> \o jsonString(st.signature)
            \o <<"}">>

ParseFail == [ok |-> FALSE, val |-> Undefined, next |-> 0]

ParseOk(x, n) == [ok |-> TRUE, val |-> x, next |-> n]

RECURSIVE digitsEnd(_, _)
digitsEnd(t, i) == IF i <= Len(t) /\ t[i] \in Digits THEN digitsEnd(t, i + 1) ELSE i

RECURSIVE parseValue(_, _)
RECURSIVE parseElems(_, _, _)
RECURSIVE parseMembers(_, _, _)
parseValue(t, i) ==
    IF i > Len(t) THEN ParseFail
    ELSE CASE t[i] = Quote ->
                LET js == {j \in (i + 1)..Len(t) : t[j] = Quote}
                IN  IF js = {} THEN ParseFail
                    ELSE LET j == CHOOSE a \in js : \A b \in js : a <= b
                         IN  ParseOk(Str(SubSeq(t, i + 1, j - 1)), j + 1)
           [] t[i] = "true"  -> ParseOk(Bool(TRUE), i + 1)
           [] t[i] = "false" -> ParseOk(Bool(FALSE), i + 1)
           [] t[i] = "null"  -> ParseOk(Null, i + 1)
           [] t[i] \in Digits -> ParseOk(Num(SubSeq(t, i, digitsEnd(t, i) - 1)), digitsEnd(t, i))
           [] t[i] = "[" ->
                IF i + 1 <= Len(t) /\ t[i + 1] = "]" THEN ParseOk(Arr(<<>>), i + 2)
                ELSE parseElems(t, i + 1, <<>>)
           [] t[i] = "{" ->
                IF i + 1 <= Len(t) /\ t[i + 1] = "}" THEN ParseOk(Obj(<<>>), i + 2)
                ELSE parseMembers(t, i + 1, <<>>)
           [] OTHER -> ParseFail

parseElems(t, i, acc) ==
    LET r == parseValue(t, i)
    IN  IF ~r.ok \/ r.next > Len(t) THEN ParseFail
        ELSE IF t[r.next] = "," THEN parseElems(t, r.next + 1, Append(acc, r.val))
        ELSE IF t[r.next] = "]" THEN ParseOk(Arr(Append(acc, r.val)), r.next + 1)
        ELSE ParseFail

parseMembers(t, i, acc) ==
    LET k == parseValue(t, i)
    IN  IF ~k.ok \/ k.val.t # "str" \/ k.next > Len(t) \/ t[k.next] # ":" THEN ParseFail
        ELSE LET r == parseValue(t, k.next + 1)
             IN  IF ~r.ok \/ r.next > Len(t) THEN ParseFail
                 ELSE IF t[r.next] = "," THEN parseMembers(t, r.next + 1, Append(acc, <<k.val.v, r.val>>))
                 ELSE IF t[r.next] = "}" THEN ParseOk(Obj(Append(acc, <<k.val.v, r.val>>)), r.next + 1)
                 ELSE ParseFail

\* JSON.parse: ok is FALSE where it throws a SyntaxError
parseJSON(t) ==
    LET r == parseValue(t, 1)
    IN  IF r.ok /\ r.next = Len(t) + 1 THEN r ELSE ParseFail

\* ------------------------------------------- checklist region and items

MinItemLen == 15

findChecklistHeading_first(d) ==
    LET hs == {i \in 1..Len(d) : isChecklistHeading(d[i])}
    IN  IF hs = {} THEN 0 ELSE CHOOSE i \in hs : \A j \in hs : i <= j

\* the last h2 whose text holds both words; 0 when there is none
findChecklistHeading(d) ==
    LET hs == {i \in 1..Len(d) : isChecklistHeading(d[i])}
    IN  IF hs = {} THEN 0 ELSE CHOOSE i \in hs : \A j \in hs : i >= j

regionEnd_tableOnly(d, h) ==
    LET stops == {i \in (h + 1)..Len(d) : isElement(d[i]) /\ d[i].tag = "TABLE"}
    IN  IF stops = {} THEN Len(d) + 1 ELSE CHOOSE i \in stops : \A j \in stops : i <= j

\* where the sibling walk stops: the first TABLE or H2 after the heading,
\* or one past the last sibling
regionEnd(d, h) ==
    LET stops == {i \in (h + 1)..Len(d) : isElement(d[i]) /\ d[i].tag \in {"TABLE", "H2"}}
    IN  IF stops = {} THEN Len(d) + 1 ELSE CHOOSE i \in stops : \A j \in stops : i <= j

nodesToHide(d, h) == SubSeq(d, h + 1, regionEnd(d, h) - 1)

\* the position of the signature table; 0 when the walk ended otherwise
signatureTable(d, h) ==
    LET e == regionEnd(d, h)
    IN  IF e <= Len(d) /\ d[e].tag = "TABLE" THEN e ELSE 0

isCheckbox(n) == isElement(n) /\ n.tag \in {"MJX-CONTAINER", "MATH"}

RECURSIVE walkItems_fromStart(_, _, _)
walkItems_fromStart(nodes, i, acc) ==
    IF i > Len(nodes) THEN acc
    ELSE LET n == nodes[i]
         IN  IF isCheckbox(n)
             THEN walkItems_fromStart(nodes, i + 1,
                     <<IF Len(trim(acc[2])) > MinItemLen THEN Append(acc[1], trim(acc[2])) ELSE acc[1], <<>>, TRUE>>)
             ELSE IF isText(n) \/ n.tag # "DIV"
                  THEN walkItems_fromStart(nodes, i + 1, <<acc[1], acc[2] \o textContent(n), TRUE>>)
                  ELSE walkItems_fromStart(nodes, i + 1, acc)

\* the forEach over the region: acc is <<items, currentItem, foundFirstCheckbox>>
RECURSIVE walkItems(_, _, _)
walkItems(nodes, i, acc) ==
    IF i > Len(nodes) THEN acc
    ELSE LET n == nodes[i]
         IN  IF isCheckbox(n)
             THEN walkItems(nodes, i + 1,
                     <<IF acc[3] /\ Len(trim(acc[2])) > MinItemLen THEN Append(acc[1], trim(acc[2])) ELSE acc[1], <<>>, TRUE>>)
             ELSE IF acc[3] /\ (isText(n) \/ n.tag # "DIV")
                  THEN walkItems(nodes, i + 1, <<acc[1], acc[2] \o textContent(n), TRUE>>)
                  ELSE walkItems(nodes, i + 1, acc)

extractItems_noFilter(nodes) ==
    LET acc   == walkItems(nodes, 1, <<(<<>>), (<<>>), FALSE>>)
        items == IF Len(trim(acc[2])) > 0 THEN Append(acc[1], trim(acc[2])) ELSE acc[1]
    IN  seq([i \in 1..Len(items) |-> trim(collapseWhitespace(items[i]))])

\* the items of a region, the last one added and the whitespace cleaned up
extractItems(nodes) ==
    LET acc   == walkItems(nodes, 1, <<(<<>>), (<<>>), FALSE>>)
        items == IF Len(trim(acc[2])) > MinItemLen THEN Append(acc[1], trim(acc[2])) ELSE acc[1]
    IN  seq([i \in 1..Len(items) |-> trim(collapseWhitespace(items[i]))])

\* the earlier version of the extraction: the paragraph's markup split on
\* the checkbox characters U+2610, U+2611, U+2612 and U+25A1
Glyphs == {"u2610", "u2611", "u2612", "u25A1"}

MinSplitLen == 10

\* part.trim().replace(/^[\s,]+/, '').replace(/[\s,]+$/, '')
cleanPart(s) ==
    LET keep == {i \in 1..Len(s) : s[i] \notin WS \cup {","}}
    IN  IF keep = {} THEN <<>>
        ELSE SubSeq(s, CHOOSE i \in keep : \A j \in keep : i <= j,
                       CHOOSE i \in keep : \A j \in keep : i >= j)

\* the items of the split variant: the parts after the first, cleaned,
\* those longer than ten characters
splitVariantItems(text) ==
    LET parts == split(text, Glyphs)
    IN  SelectSeq(seq([i \in 1..(Len(parts) - 1) |-> cleanPart(parts[i + 1])]), LAMBDA c : Len(c) > MinSplitLen)

IntroText == <<"By signing below, I certify that I have completed the following tasks:">>

itemDiv_oneBased(itemText, index) ==
    El("DIV", "checklist-item",
       << ElId("INPUT", "", "checklist-item-" \o ToString(index + 1), <<>>),
          El("LABEL", "", <<Txt(itemText)>>) >>)

itemDiv(itemText, index) ==
    El("DIV", "checklist-item",
       << ElId("INPUT", "", "checklist-item-" \o ToString(index), <<>>),
          El("LABEL", "", <<Txt(itemText)>>) >>)

signatureSection ==
    El("DIV", "signature-section",
       << El("H3", "", <<Txt(<<"Signature">>)>>),
          El("DIV", "signature-canvas-container",
             << El("LABEL", "", <<Txt(<<"Sign below (draw your signature):">>)>>),
                ElId("CANVAS", "signature-canvas", "signature-canvas", <<>>),
                El("BR", "", <<>>),
                El("BUTTON", "clear-signature-btn", <<Txt(<<"Clear Signature">>)>>) >>),
          El("DIV", "signature-field",
             << El("LABEL", "", <<Txt(<<"Date:">>)>>),
                ElId("INPUT", "", "signature-date", <<>>) >>),
          El("BUTTON", "email-checklist-btn", <<Txt(<<"Email Completed Checklist to contextualdynamics@gmail.com">>)>>) >>)

\* the container built for the items
checklistContainer(items) ==
    ElId("DIV", "interactive-checklist", "interactive-checklist",
         <<El("P", "", <<Txt(IntroText)>>)>>
         \o [i \in 1..Len(items) |-> itemDiv(items[i], i - 1)]
         \o <<signatureSection>>)

hideNode_drop(n) ==
    IF isElement(n) THEN [n EXCEPT !.hidden = TRUE]
    ELSE [El("SPAN", "", <<>>) EXCEPT !.hidden = TRUE]

\* an original node after hiding: elements get display none, non-blank
\* text nodes move into a hidden span
hideNode(n) ==
    IF isElement(n) THEN [n EXCEPT !.hidden = TRUE]
    ELSE IF trim(n.text) # <<>> THEN [El("SPAN", "", <<n>>) EXCEPT !.hidden = TRUE]
    ELSE n

\* the document after the conversion of the region of heading h
convertedDocument(d, h, items) ==
    LET e == regionEnd(d, h)
        t == signatureTable(d, h)
    IN  SubSeq(d, 1, h)
        \o <<checklistContainer(items)>>
        \o [i \in 1..(e - 1 - h) |-> hideNode(d[h + i])]
        \o (IF t # 0 THEN <<[d[t] EXCEPT !.hidden = TRUE]>> ELSE <<>>)
        \o SubSeq(d, (IF t # 0 THEN t + 1 ELSE e), Len(d))

RECURSIVE countById(_, _)
countById(n, id) ==
    (IF n.id = id THEN 1 ELSE 0)
    + (IF n.kids = <<>> THEN 0
       ELSE LET c[i \in 0..Len(n.kids)] == IF i = 0 THEN 0 ELSE c[i - 1] + countById(n.kids[i], id)
            IN  c[Len(n.kids)])

\* how many elements of the document have this id
elementsById(d, id) ==
    LET c[i \in 0..Len(d)] == IF i = 0 THEN 0 ELSE c[i - 1] + countById(d[i], id)
    IN  c[Len(d)]

\* the checkboxes of the document, as '.interactive-checklist input[type="checkbox"]'
\* finds them: one per item of each container
numCheckboxes(d) ==
    LET c[i \in 0..Len(d)] ==
            IF i = 0 THEN 0
            ELSE c[i - 1] + (IF d[i].cls = "interactive-checklist"
                             THEN Cardinality({k \in 1..Len(d[i].kids) : d[i].kids[k].cls = "checklist-item"})
                             ELSE 0)
    IN  c[Len(d)]

\* -------------------------------------------------------------- canvas

NumPixels == 2

RectLeft == 1

Pixels == 1..NumPixels

BlankCanvas == [p \in Pixels |-> 0]

\* ctx.getImageData(...).data: four bytes a pixel, the stroke colour is #000
getImageData(c) == Concat([p \in Pixels |-> <<0, 0, 0, c[p]>>])

hasSignature_orEqual(pixelData) ==
    \E i \in 0..(Len(pixelData) - 1) : i >= 3 /\ (i - 3) % 4 = 0 /\ pixelData[i + 1] >= 0

\* the scan of the alpha bytes: i = 3, 7, 11, ...
hasSignature(pixelData) ==
    \E i \in 0..(Len(pixelData) - 1) : i >= 3 /\ (i - 3) % 4 = 0 /\ pixelData[i + 1] > 0

DataUrlPrefix == "data:image/png;base64,"

alphaCode(a) == IF a = 0 THEN "00" ELSE "ff"

\* canvas.toDataURL()
toDataURL(c) == <<DataUrlPrefix>> \o [p \in Pixels |-> alphaCode(c[p])]

\* what assigning img.src decodes to; ok is FALSE when the image never loads
decodeImage(src) ==
    IF /\ Len(src) = NumPixels + 1
       /\ src[1] = DataUrlPrefix
       /\ \A i \in 2..Len(src) : src[i] \in {"00", "ff"}
    THEN [ok |-> TRUE, bitmap |-> [p \in Pixels |-> IF src[p + 1] = "ff" THEN 255 ELSE 0]]
    ELSE [ok |-> FALSE, bitmap |-> BlankCanvas]

drawImage_keep(c, img) == c

\* ctx.drawImage(img, 0, 0): source-over compositing
drawImage(c, img) == [p \in Pixels |-> IF img[p] > 0 THEN img[p] ELSE c[p]]

EmptyPath == [cur |-> 0, pix |-> {}]

\* getMousePos
getMousePos(clientX) == clientX - RectLeft

moveTo(path, x) == [path EXCEPT !.cur = x]

lineTo(path, x) ==
    IF path.cur = 0 THEN [path EXCEPT !.cur = x]
    ELSE [cur |-> x, pix |-> path.pix \cup {p \in Pixels : (path.cur <= p /\ p <= x) \/ (x <= p /\ p <= path.cur)}]

\* ctx.stroke()
stroke(c, path) == [p \in Pixels |-> IF p \in path.pix THEN 255 ELSE c[p]]

\* ------------------------------------------------------------ documents

HeadingChecklist == <<"C", "h", "e", "c", "k", "l", "i", "s", "t", " ", "a", "n", "d", " ", "s", "i", "g", "n", "a", "t", "u", "r", "e", " ", "p", "a", "g", "e">>

HeadingOverview == <<"L", "a", "b", " ", "o", "v", "e", "r", "v", "i", "e", "w">>

\* the text of one checklist item in the export, with the stray line break
\* TeX4ht leaves around it
itemSource(k) == <<"\n", "T", "a", "s", "k", " ", ToString(k), " ">> \o Rep("x", 12) \o <<"\n">>

RECURSIVE checklistMarkup(_)
checklistMarkup(n) ==
    IF n = 0 THEN <<>>
    ELSE checklistMarkup(n - 1) \o <<El("MJX-CONTAINER", "", <<Txt(<<"\\Box">>)>>), Txt(itemSource(n))>>

\* an export with a checklist section of n items and its signature table
ChecklistDocument(n) ==
    << El("H2", "chapterHead", <<Txt(HeadingChecklist)>>),
       Txt(<<"\n">>),
       Txt(<<"P", "l", "e", "a", "s", "e", " ", "c", "o", "m", "p", "l", "e", "t", "e", ":">>) >>
    \o checklistMarkup(n)
    \o << El("TABLE", "", <<Txt(<<"S", "i", "g", "n", "a", "t", "u", "r", "e", " ", "D", "a", "t", "e">>)>>) >>

\* an export without a checklist section: orphaned text after a heading,
\* a malformed enumeration label and a personnel list
PlainDocument ==
    << El("H2", "chapterHead", <<Txt(HeadingOverview)>>),
       Txt(<<"W", "e", "l", "c", "o", "m", "e">>),
       El("DL", "", << El("DT", "", <<Txt(<<"1", ".", "2", ".", "3", ".", "1", ".">>)>>), El("DD", "", <<Txt(<<"R", "e", "a", "d">>)>>) >>),
       El("DIV", "columns-2", <<Txt(<<"A", "n", "n", "\n", "B", "o", "b", "\n">>)>>) >>

HeadingNearMiss == <<"O", "n", "b", "o", "a", "r", "d", "i", "n", "g", " ", "c", "h", "e", "c", "k", "l", "i", "s", "t">>

\* an export whose heading holds only one of the two words, followed by
\* checkbox markup
NearMissDocument ==
    << El("H2", "chapterHead", <<Txt(HeadingNearMiss)>>) >>
    \o checklistMarkup(1)
    \o << El("TABLE", "", <<Txt(<<"S", "i", "g", "n", "a", "t", "u", "r", "e", " ", "D", "a", "t", "e">>)>>) >>

MaxRegionLen == 4

\* the kinds of node TeX4ht leaves after the checklist heading
NodeKinds == {"box", "math", "text", "short", "div", "span"}

\* a text of exactly as many characters as the length test still rejects
ShortText == <<"\n">> \o Rep("y", MinItemLen) \o <<" ">>

\* a short text the export has wrapped and indented in its markup
WrappedText == <<"\n", "S", "i", "g", "n", "\n">> \o Rep(" ", 12) \o <<"h", "e", "r", "e", "\n">>

\* the i-th sibling of a region, of the given kind
regionNode(kind, i) ==
    CASE kind = "box"   -> El("MJX-CONTAINER", "", <<Txt(<<"\\Box">>)>>)
      [] kind = "math"  -> El("MATH", "", <<Txt(<<"\\Box">>)>>)
      [] kind = "text"  -> Txt(itemSource(i))
      [] kind = "short" -> Txt(ShortText)
      [] kind = "div"   -> El("DIV", "", <<Txt(itemSource(i))>>)
      [] kind = "span"  -> El("SPAN", "", <<Txt(itemSource(i))>>)
      [] kind = "wrapped" -> Txt(WrappedText)
      [] kind = "square"  -> El("MJX-CONTAINER", "", <<Txt(<<"u25A1">>)>>)
      [] kind = "formula" -> El("MATH", "", <<Txt(<<"x", "=", "1">>)>>)
      [] kind = "ticked"  -> Txt(<<"u2611", " ">> \o itemSource(i))

RegionShapes == UNION {[1..n -> NodeKinds] : n \in 0..MaxRegionLen}

SignatureTable == El("TABLE", "", <<Txt(<<"S", "i", "g", "n", "a", "t", "u", "r", "e", " ", "D", "a", "t", "e">>)>>)

\* what precedes the checklist heading: nothing, or an earlier heading
\* with the same words and a region of its own
Leads == {"none", "earlier"}

leadNodes(lead) ==
    IF lead = "none" THEN <<>>
    ELSE << El("H2", "chapterHead", <<Txt(HeadingChecklist)>>),
            El("MJX-CONTAINER", "", <<Txt(<<"\\Box">>)>>),
            Txt(itemSource(7)),
            SignatureTable >>

\* what ends the region: the signature table, the heading of the next
\* section, or the end of the parent; checkbox markup follows either node
Tails == {"table", "heading", "end"}

tailNodes(tail) ==
    CASE tail = "table"   -> << SignatureTable, El("MJX-CONTAINER", "", <<Txt(<<"\\Box">>)>>), Txt(itemSource(8)) >>
      [] tail = "heading" -> << El("H2", "chapterHead", <<Txt(HeadingOverview)>>), El("MJX-CONTAINER", "", <<Txt(<<"\\Box">>)>>), Txt(itemSource(9)) >>
      [] tail = "end"     -> <<>>

\* the lead and tail an export is generated with
Layouts == {<<"none", "table">>, <<"none", "heading">>, <<"none", "end">>, <<"earlier", "table">>}

\* an export: the checklist heading, the line break after it, the region
\* of the given shape, then the tail
GeneratedDocument(lead, shape, tail) ==
    leadNodes(lead)
    \o << El("H2", "chapterHead", <<Txt(HeadingChecklist)>>), Txt(<<"\n">>) >>
    \o [i \in 1..Len(shape) |-> regionNode(shape[i], i)]
    \o tailNodes(tail)

GeneratedDocuments == {GeneratedDocument(l[1], shape, l[2]) : l \in Layouts, shape \in RegionShapes}

\* exports whose regions hold white squares as markers, item texts,
\* wrapped texts, formulas and texts that begin with a checked box
ItemKinds == {"square", "text", "wrapped", "formula", "ticked"}

ItemDocuments ==
    {GeneratedDocument("none", shape, "table") : shape \in UNION {[1..n -> ItemKinds] : n \in 0..MaxRegionLen}}

\* ---------------------------------------------------- table of contents

\* an a element with its href
Link(href, text) ==
    [tag |-> "A", text |-> <<>>, cls |-> "", id |-> "", hidden |-> FALSE, kids |-> <<Txt(text)>>, href |-> href]

\* the characters of a text as one string, as an id or an href holds them
RECURSIVE toStr(_)
toStr(s) == IF s = <<>> THEN "" ELSE s[1] \o toStr(Tail(s))

AlNum == Digits \cup {LowerCase[i] : i \in 1..Len(LowerCase)}

\* h.textContent.toLowerCase().replace(/[^a-z0-9]+/g, '-').replace(/^-|-$/g, '')
slug(text) ==
    LET lower  == toLowerCase(text)
        idx    == SelectSeq(positions(Len(lower)), LAMBDA i : lower[i] \in AlNum \/ i = 1 \/ lower[i - 1] \in AlNum)
        dashed == seq([k \in 1..Len(idx) |-> IF lower[idx[k]] \in AlNum THEN lower[idx[k]] ELSE "-"])
        lo     == IF dashed # <<>> /\ dashed[1] = "-" THEN 2 ELSE 1
        hi     == IF dashed # <<>> /\ dashed[Len(dashed)] = "-" THEN Len(dashed) - 1 ELSE Len(dashed)
    IN  toStr(SubSeq(dashed, lo, hi))

\* document.getElementById('toc-list'): its position among the siblings, or 0
tocList(d) ==
    IF \E i \in 1..Len(d) : d[i].id = "toc-list"
    THEN CHOOSE i \in 1..Len(d) : d[i].id = "toc-list" /\ \A j \in 1..(i - 1) : d[j].id # "toc-list"
    ELSE 0

\* document.querySelectorAll('h2.chapterHead'), as positions
chapterHeads(d) == SelectSeq(positions(Len(d)), LAMBDA i : d[i].tag = "H2" /\ d[i].cls = "chapterHead")

tocEntry(h) == El("LI", "", <<Link("#" \o h.id, textContent(h))>>)

withSlugIds_keepEntries(d) ==
    LET t     == tocList(d)
        heads == chapterHeads(d)
        ided  == seq([i \in 1..Len(d) |->
                        IF d[i].tag = "H2" /\ d[i].cls = "chapterHead" /\ d[i].id = ""
                        THEN LET k == CHOOSE k \in 1..Len(heads) : heads[k] = i
                                 g == slug(textContent(d[i]))
                             IN  [d[i] EXCEPT !.id = IF g = "" THEN "section-" \o ToString(k - 1) ELSE g]
                        ELSE d[i]])
    IN  IF t = 0 THEN d
        ELSE [ided EXCEPT ![t].kids = d[t].kids \o seq([k \in 1..Len(heads) |-> tocEntry(ided[heads[k]])])]

\* the generator that clears the list and gives headings without an id a
\* slug of their text, or 'section-' and their index
withSlugIds(d) ==
    LET t     == tocList(d)
        heads == chapterHeads(d)
        ided  == seq([i \in 1..Len(d) |->
                        IF d[i].tag = "H2" /\ d[i].cls = "chapterHead" /\ d[i].id = ""
                        THEN LET k == CHOOSE k \in 1..Len(heads) : heads[k] = i
                                 g == slug(textContent(d[i]))
                             IN  [d[i] EXCEPT !.id = IF g = "" THEN "section-" \o ToString(k - 1) ELSE g]
                        ELSE d[i]])
    IN  IF t = 0 THEN d
        ELSE [ided EXCEPT ![t].kids = seq([k \in 1..Len(heads) |-> tocEntry(ided[heads[k]])])]

\* the generator of toc.js: one entry per heading, appended to the list
appended(d) ==
    LET t     == tocList(d)
        heads == chapterHeads(d)
    IN  IF t = 0 THEN d
        ELSE [d EXCEPT ![t].kids = d[t].kids \o seq([k \in 1..Len(heads) |-> tocEntry(d[heads[k]])])]

\* how many h2 elements a generated page has
MaxHeadings == 3

\* a chapter heading with the id TeX4ht gave it, one without an id, one
\* without an id whose text has no letter or digit, and a section heading
HeadingKinds == {"id", "text", "symbols", "other"}

tocHeading(kind) ==
    CASE kind = "id"      -> ElId("H2", "chapterHead", "x1-2000", <<Txt(<<"I", "n", "t", "r", "o">>)>>)
      [] kind = "text"    -> El("H2", "chapterHead", <<Txt(<<" ", "2", ".", " ", "L", "a", "b", " ", "O", "v", "e", "r", "v", "i", "e", "w", "!">>)>>)
      [] kind = "symbols" -> El("H2", "chapterHead", <<Txt(<<"*", "*", "*">>)>>)
      [] kind = "other"   -> ElId("H2", "sectionHead", "x1-3000", <<Txt(<<"N", "o", "t", "e", "s">>)>>)

\* the entry TeX4ht generated
StaleEntry == El("LI", "", <<Link("#QQ2-1-1", <<"O", "l", "d">>)>>)

\* a page: a list, with the id 'toc-list' or without, holding the stale
\* entry or nothing, then the headings
TocDocument(hasToc, stale, kinds) ==
    << ElId("UL", "", IF hasToc THEN "toc-list" ELSE "", IF stale THEN <<StaleEntry>> ELSE <<>>) >>
    \o seq([i \in 1..Len(kinds) |-> tocHeading(kinds[i])])

HeadingLists == UNION {[1..n -> HeadingKinds] : n \in 0..MaxHeadings}

TocDocuments == {TocDocument(t, e, kinds) : t \in BOOLEAN, e \in BOOLEAN, kinds \in HeadingLists}

\* how many numbers a generated dt text joins with dots
MaxParts == 4

Numbers == {<<"1">>, <<"2", "0">>}

\* texts of a dt that are no dotted numbers
OtherTexts ==
    { <<>>,
      <<"1", ".", "a", ".", "3">>,
      <<"1", ".", ".", "2", ".", "3">>,
      <<".", "1", ".", "2", ".", "3">>,
      <<"1", ".", "2", ".", "3", " ", "x">>,
      <<"S", "t", "e", "p", " ", "1", ".", "2", ".", "3">>,
      <<"1", ",", "2", ",", "3">> }

\* the dt texts TeX4ht may leave: numbers joined by dots with up to two
\* trailing dots, or another text
DtCases ==
    {[nums |-> ns, dots |-> d, other |-> <<>>] : ns \in UNION {[1..k -> Numbers] : k \in 1..MaxParts}, d \in 0..2}
    \cup {[nums |-> <<>>, dots |-> 0, other |-> t] : t \in OtherTexts}

RECURSIVE dotted(_)
dotted(nums) ==
    IF Len(nums) = 1 THEN nums[1]
    ELSE dotted(SubSeq(nums, 1, Len(nums) - 1)) \o <<".">> \o nums[Len(nums)]

caseText(c) == IF c.nums = <<>> THEN c.other ELSE dotted(c.nums) \o Rep(".", c.dots)

\* a description list: a dt with the text of the case between line
\* breaks, a dd with a dotted number, a dt whose dotted number is spread
\* over a span and a text node
NumberedDocument(c) ==
    << El("DL", "",
          << El("DT", "", <<Txt(<<"\n", " ">> \o caseText(c) \o <<"\n">>)>>),
             El("DD", "", <<Txt(<<"1", ".", "2", ".", "3", ".">>)>>),
             El("DT", "", <<El("SPAN", "", <<Txt(<<"4", ".", "5", ".">>)>>), Txt(<<"6">>)>>) >>) >>

NumberedDocuments == {NumberedDocument(c) : c \in DtCases}

\* the documents a page load may be given, by name
Sources == {"plain", "nearmiss", "checklist2"}

SourceDocument(name) ==
    CASE name = "plain"      -> PlainDocument
      [] name = "nearmiss"   -> NearMissDocument
      [] name = "checklist2" -> ChecklistDocument(2)

\* ---------------------------------------------------------------- dates

Today == <<"2024-05-02">>

OtherDate == <<"2024-05-01">>

ValidDates == {Today, OtherDate}

\* the value an <input type="date"> keeps when script assigns one
sanitizeDate(s) == IF s \in ValidDates THEN s ELSE <<>>

\* -------------------------------------------------------------- effects
\* what a step shows or hands to the outside: dialogs, downloads,
\* navigations, storage reads, uncaught exceptions

Effect(k, txt) == [kind |-> k, text |-> txt, date |-> <<>>, boxes |-> <<>>, sig |-> <<>>]

MsgCheckAll == <<"Please check all items before submitting.">>

MsgSignature == <<"Please add your signature before submitting.">>

MsgDate == <<"Please enter the date before submitting.">>

MsgNoLibrary == <<"Could not load PDF library. Using print dialog instead.">>

Alert(m) == Effect("alert", m)

UncaughtError == Effect("error", <<>>)

StorageKey == <<"labManualChecklist">>

\* ---------------------------------------------------------------- state

VARIABLES
    pc,              \* "loading", "timer" (the 100 ms timer is pending) or "ready"
    source,          \* the name of the document the server sends
    doc,             \* the document as it stands
    checked,         \* checked[i]: the i-th checkbox of the form
    completed,       \* completed[i]: its item div has the class 'completed'
    dateValue,       \* the value of #signature-date
    signatureCanvas, \* whether the module variable is set
    canvas,          \* the bitmap of the signature canvas (alpha per pixel)
    path,            \* the current path of the 2d context
    isDrawing,
    storage,         \* the localStorage slot 'labManualChecklist'
    storageMode,     \* "ok", "full" (setItem throws) or "unavailable" (every access throws)
    images,          \* the image loads in flight (the decoded bitmaps)
    jspdf,           \* whether window.jspdf is defined
    scripts,         \* the script loads in flight (the dateValue each closes over)
    timers,          \* the setTimeout callbacks pending
    lastOp,          \* the handler function that ran last
    out,             \* the effects of the last step
    host             \* the machine the setup script runs on, and the run

vars == <<pc, source, doc, checked, completed, dateValue, signatureCanvas, canvas, path, isDrawing, storage, storageMode, images, jspdf, scripts, timers, lastOp, out, host>>

form == <<checked, completed, dateValue, canvas>>

export == <<jspdf, scripts, timers>>

Missing == [present |-> FALSE, text |-> <<>>]

Stored(t) == [present |-> TRUE, text |-> t]

\* values the slot may hold when the page is first opened: nothing, a
\* record an earlier visit saved, text that is not JSON, a cut-off record,
\* JSON null, and a record whose checkboxes is a number
SavedEarlier == Stored(stringifyState([checkboxes |-> <<TRUE, TRUE>>, date |-> OtherDate, signature |-> <<DataUrlPrefix>> \o Rep("ff", NumPixels)]))

NotJSON == Stored(<<"{", "o", "o", "p", "s">>)

TruncatedJSON == Stored(<<"{">> \o jsonString(<<"checkboxes">>) \o <<":", "[", "true">>)

WrongShape ==
    Stored(<<"{">> \o jsonString(<<"checkboxes">>) \o <<":", "5", ",">>
           \o jsonString(<<"date">>) \o <<":">> \o jsonString(OtherDate) \o <<",">>
           \o jsonString(<<"signature">>) \o <<":">> \o jsonString(<<DataUrlPrefix>> \o Rep("ff", NumPixels))
           \o <<"}">>)

InitialStorage == {Missing, SavedEarlier, NotJSON, TruncatedJSON, Stored(<<"null">>), WrongShape}

StorageModes == {"ok", "full", "unavailable"}

\* --------------------------------------------------------- setup.sh
\* The machine is what the script's checks can see: the commands on the
\* PATH ('cmd:'), the application bundles ('app:'), the files ('file:')
\* and the conda environments ('env:'). A run is a position in main, the
\* installations it has made so far and the number of 'cdl' environments
\* it has created.

\* how many times the script is run on a machine
MaxRuns == 2

Platforms == {"macos", "ubuntu", "linux"}

\* what may be on a machine before the first run
InitialFacts == {"cmd:brew", "cmd:git", "cmd:slack", "app:Slack", "cmd:code", "cmd:pdflatex", "cmd:dropbox", "cmd:conda", "env:cdl"}

\* no machine: a page in a browser
NoHost == [os |-> "none", present |-> {}, run |-> 0, step |-> "none", installs |-> <<>>, created |-> 0]

\* the functions main calls after detect_platform, in order
Steps == <<"package manager", "install_git", "install_slack", "install_vscode", "install_latex", "install_dropbox", "install_conda", "setup_cdl_environment", "verify_installation">>

stepAfter(step) == Steps[(CHOOSE i \in 1..Len(Steps) : Steps[i] = step) + 1]

\* command_exists
command_exists(h, cmd) == ("cmd:" \o cmd) \in h.present

\* an installation command has run and left these facts
installed(h, command, facts) ==
    [h EXCEPT !.present = @ \cup facts, !.installs = Append(@, command)]

\* install_homebrew on macOS, update_apt on Ubuntu
package_manager(h) ==
    CASE h.os = "macos" -> IF command_exists(h, "brew") THEN h
                           ELSE installed(h, "Homebrew install.sh", {"cmd:brew"})
      [] OTHER -> h

install_git(h) ==
    IF command_exists(h, "git") THEN h
    ELSE CASE h.os = "macos"  -> installed(h, "brew install git", {"cmd:git"})
           [] h.os = "ubuntu" -> installed(h, "apt install git", {"cmd:git"})
           [] OTHER -> h

install_slack(h) ==
    CASE h.os = "macos"  -> IF "app:Slack" \in h.present THEN h
                            ELSE installed(h, "brew install --cask slack", {"app:Slack"})
      [] h.os = "ubuntu" -> IF command_exists(h, "slack") THEN h
                            ELSE installed(h, "snap install slack", {"cmd:slack"})
      [] OTHER -> h

install_vscode(h) ==
    CASE h.os = "macos"  -> IF "app:Visual Studio Code" \in h.present \/ command_exists(h, "code") THEN h
                            ELSE installed(h, "brew install --cask visual-studio-code", {"app:Visual Studio Code", "cmd:code"})
      [] h.os = "ubuntu" -> IF command_exists(h, "code") THEN h
                            ELSE installed(h, "snap install code", {"cmd:code"})
      [] OTHER -> h

install_latex(h) ==
    CASE h.os = "macos"  -> IF command_exists(h, "pdflatex") THEN h
                            ELSE installed(h, "brew install --cask mactex-no-gui", {"cmd:pdflatex"})
      [] h.os = "ubuntu" -> IF command_exists(h, "pdflatex") THEN h
                            ELSE installed(h, "apt install texlive-full", {"cmd:pdflatex"})
      [] OTHER -> h

\* on Ubuntu the archive is unpacked into the home directory: it leaves
\* ~/.dropbox-dist/dropboxd and no command on the PATH
install_dropbox(h) ==
    CASE h.os = "macos"  -> IF "app:Dropbox" \in h.present THEN h
                            ELSE installed(h, "brew install --cask dropbox", {"app:Dropbox"})
      [] h.os = "ubuntu" -> IF command_exists(h, "dropbox") THEN h
                            ELSE installed(h, "wget dropbox | tar xzf -", {"file:~/.dropbox-dist/dropboxd"})
      [] OTHER -> h

\* install_conda: conda on the PATH, or found at ~/miniconda3 and hooked
\* into this shell, or installed there
install_conda(h) ==
    IF command_exists(h, "conda") THEN h
    ELSE IF "file:~/miniconda3/bin/conda" \in h.present
         THEN [h EXCEPT !.present = @ \cup {"cmd:conda"}]
         ELSE installed(h, "Miniconda3 installer", {"file:~/miniconda3/bin/conda", "cmd:conda"})

\* setup_cdl_environment: exit 1 without conda, else update the 'cdl'
\* environment when conda env list shows it and create it otherwise
setup_cdl_environment(h) ==
    LET hooked == IF ~command_exists(h, "conda") /\ "file:~/miniconda3/bin/conda" \in h.present
                  THEN [h EXCEPT !.present = @ \cup {"cmd:conda"}]
                  ELSE h
    IN  IF ~command_exists(hooked, "conda") THEN [hooked EXCEPT !.step = "exit 1"]
        ELSE IF "env:cdl" \in hooked.present THEN hooked
        ELSE [hooked EXCEPT !.present = @ \cup {"env:cdl"}, !.created = @ + 1]

\* the function main calls at this step, applied to the machine
runStep(h) ==
    CASE h.step = "package manager"       -> package_manager(h)
      [] h.step = "install_git"           -> install_git(h)
      [] h.step = "install_slack"         -> install_slack(h)
      [] h.step = "install_vscode"        -> install_vscode(h)
      [] h.step = "install_latex"         -> install_latex(h)
      [] h.step = "install_dropbox"       -> install_dropbox(h)
      [] h.step = "install_conda"         -> install_conda(h)
      [] h.step = "setup_cdl_environment" -> setup_cdl_environment(h)

\* the state of a page before its scripts run
FreshState ==
    /\ pc = "loading"
    /\ checked = <<>>
    /\ completed = <<>>
    /\ dateValue = <<>>
    /\ signatureCanvas = FALSE
    /\ canvas = BlankCanvas
    /\ path = EmptyPath
    /\ isDrawing = FALSE
    /\ images = <<>>
    /\ jspdf = FALSE
    /\ scripts = <<>>
    /\ timers = <<>>
    /\ lastOp = "none"
    /\ out = <<>>
    /\ host = NoHost

FreshPage == doc = SourceDocument(source) /\ FreshState

\* a first visit: any document, any earlier content of the slot; a slot
\* that cannot be read holds nothing the page could see, and a full one
\* holds nothing or what an earlier visit saved
Init ==
    /\ source \in Sources
    /\ FreshPage
    /\ storageMode \in StorageModes
    /\ storage \in InitialStorage
    /\ storageMode = "unavailable" => storage = Missing
    /\ storageMode = "full" => storage \in {Missing, SavedEarlier}

\* a first visit with working, empty storage
InitExport ==
    /\ source = "checklist2"
    /\ FreshPage
    /\ storageMode = "ok"
    /\ storage = Missing

\* a first visit to a generated export, with working, empty storage
InitDoc ==
    /\ source = "generated"
    /\ doc \in GeneratedDocuments
    /\ FreshState
    /\ storageMode = "ok"
    /\ storage = Missing

\* ---------------------------------------------------------- persistence

saveChecklistState_uncaught(cbs, dv, cv) ==
    LET state == [checkboxes |-> cbs,
                  date       |-> dv,
                  signature  |-> IF signatureCanvas THEN toDataURL(cv) ELSE <<>>]
        threw == storageMode # "ok"
    IN  [storage |-> IF threw THEN storage ELSE Stored(stringifyState(state)),
         error   |-> threw]

saveChecklistState_stale(cbs, dv, cv) ==
    LET state == [checkboxes |-> checked,
                  date       |-> dateValue,
                  signature  |-> IF signatureCanvas THEN toDataURL(canvas) ELSE <<>>]
        threw == storageMode # "ok"
    IN  [storage |-> IF threw THEN storage ELSE Stored(stringifyState(state)),
         error   |-> FALSE]

\* saveChecklistState, given the checkbox values, the date field and the
\* bitmap it reads: the slot afterwards, and whether an exception leaves it
saveChecklistState(cbs, dv, cv) ==
    LET state == [checkboxes |-> cbs,
                  date       |-> dv,
                  signature  |-> IF signatureCanvas THEN toDataURL(cv) ELSE <<>>]
        threw == storageMode # "ok"
    IN  [storage |-> IF threw THEN storage ELSE Stored(stringifyState(state)),
         error   |-> FALSE]

Unrestored(cbs, done, dv) == [checked |-> cbs, completed |-> done, date |-> dv, images |-> <<>>, error |-> FALSE]

loadChecklistState_uncaught(cbs, done, dv, hasCanvas) ==
    [Unrestored(cbs, done, dv) EXCEPT !.error = storageMode = "unavailable" \/ (storage.present /\ storage.text # <<>>)]

\* loadChecklistState on a form with checkbox values cbs, 'completed'
\* marks done and date dv, signatureCanvas set or not: the form afterwards, the image load it starts,
\* and whether an exception leaves it
loadChecklistState(cbs, done, dv, hasCanvas) ==
    IF storageMode = "unavailable" THEN Unrestored(cbs, done, dv)
    ELSE IF ~storage.present \/ storage.text = <<>> THEN Unrestored(cbs, done, dv)
    ELSE LET r == parseJSON(storage.text)
         IN  IF ~r.ok \/ throwsOnGet(r.val) THEN Unrestored(cbs, done, dv)
             ELSE LET state == r.val
                      boxes == getProp(state, <<"checkboxes">>)
                      date  == getProp(state, <<"date">>)
                      sig   == getProp(state, <<"signature">>)
                      on    == [i \in 1..Len(cbs) |-> truthy(boxes) /\ truthy(getIndex(boxes, i - 1))]
                      img   == decodeImage(toStringJS(sig))
                  IN  [checked   |-> [i \in 1..Len(cbs) |-> on[i] \/ cbs[i]],
                       completed |-> [i \in 1..Len(cbs) |-> on[i] \/ done[i]],
                       date      |-> IF truthy(date) THEN sanitizeDate(toStringJS(date)) ELSE dv,
                       images    |-> IF truthy(sig) /\ hasCanvas /\ img.ok THEN <<img.bitmap>> ELSE <<>>,
                       error     |-> FALSE]

\* --------------------------------------------------------------- export

\* how many script loads and timers may be pending at once
MaxPending == 1

RECURSIVE countByTag(_, _)
countByTag(n, tag) ==
    (IF n.tag = tag THEN 1 ELSE 0)
    + (IF n.kids = <<>> THEN 0
       ELSE LET c[i \in 0..Len(n.kids)] == IF i = 0 THEN 0 ELSE c[i - 1] + countByTag(n.kids[i], tag)
            IN  c[Len(n.kids)])

\* how many '.interactive-checklist label' elements the document holds
numLabels(d) ==
    LET c[i \in 0..Len(d)] ==
            IF i = 0 THEN 0
            ELSE c[i - 1] + (IF d[i].cls = "interactive-checklist" THEN countByTag(d[i], "LABEL") ELSE 0)
    IN  c[Len(d)]

FilePrefix == <<"lab-manual-checklist-">>

MailtoPrefix == <<"mailto:contextualdynamics@gmail.com?subject=Lab Manual Checklist - Completed&body=">>

createPDF_today(dv) ==
    [out    |-> << [kind  |-> "download",
                    text  |-> FilePrefix \o Today \o <<".pdf">>,
                    date  |-> dv,
                    boxes |-> [i \in 1..numLabels(doc) |-> i <= Len(checked) /\ checked[i]],
                    sig   |-> IF signatureCanvas THEN toDataURL(canvas) ELSE <<>>] >>,
     jspdf   |-> jspdf,
     scripts |-> scripts,
     timers  |-> Append(timers, [fn |-> "mailto", date |-> dv])]

\* createPDF: the certificate it saves (one glyph per label, the signature
\* image, the date) and the timer it starts
createPDF(dv) ==
    [out    |-> << [kind  |-> "download",
                    text  |-> FilePrefix \o dv \o <<".pdf">>,
                    date  |-> dv,
                    boxes |-> [i \in 1..numLabels(doc) |-> i <= Len(checked) /\ checked[i]],
                    sig   |-> IF signatureCanvas THEN toDataURL(canvas) ELSE <<>>] >>,
     jspdf   |-> jspdf,
     scripts |-> scripts,
     timers  |-> Append(timers, [fn |-> "mailto", date |-> dv])]

\* fallbackToPrint: the mail link with the instructions, then the timer
\* of the print prompt
fallbackToPrint(dv) ==
    [out     |-> << [Effect("mailto", MailtoPrefix \o <<"To generate a PDF:">>) EXCEPT !.date = dv] >>,
     jspdf   |-> jspdf,
     scripts |-> scripts,
     timers  |-> Append(timers, [fn |-> "print", date |-> dv])]

\* generateChecklistPDF
generateChecklistPDF(dv) ==
    IF ~jspdf
    THEN [out |-> <<>>, jspdf |-> jspdf, scripts |-> Append(scripts, dv), timers |-> timers]
    ELSE createPDF(dv)

Blocked(msg) == [out |-> <<Alert(msg)>>, jspdf |-> jspdf, scripts |-> scripts, timers |-> timers]

allChecked_butLast(cbs) == \A i \in 1..(Len(cbs) - 1) : cbs[i]

allChecked(cbs) == \A i \in 1..Len(cbs) : cbs[i]

emailChecklist_dateFirst ==
    IF ~allChecked(checked) THEN Blocked(MsgCheckAll)
    ELSE IF elementsById(doc, "signature-date") = 0 \/ dateValue = <<>> THEN Blocked(MsgDate)
    ELSE IF signatureCanvas /\ ~hasSignature(getImageData(canvas)) THEN Blocked(MsgSignature)
    ELSE generateChecklistPDF(dateValue)

\* emailChecklist
emailChecklist ==
    IF ~allChecked(checked) THEN Blocked(MsgCheckAll)
    ELSE IF signatureCanvas /\ ~hasSignature(getImageData(canvas)) THEN Blocked(MsgSignature)
    ELSE IF elementsById(doc, "signature-date") = 0 \/ dateValue = <<>> THEN Blocked(MsgDate)
    ELSE generateChecklistPDF(dateValue)

\* -------------------------------------------------------------- actions

ClientXs == {RectLeft + p : p \in Pixels}

\* the form's listeners exist once the container is in the document
formReady == pc = "ready" /\ \E i \in 1..Len(doc) : doc[i].id = "interactive-checklist"

\* a page load: the module-level state of a fresh page
PageLoad ==
    /\ pc = "ready"
    /\ pc' = "loading"
    /\ doc' = SourceDocument(source)
    /\ checked' = <<>>
    /\ completed' = <<>>
    /\ dateValue' = <<>>
    /\ signatureCanvas' = FALSE
    /\ canvas' = BlankCanvas
    /\ path' = EmptyPath
    /\ isDrawing' = FALSE
    /\ images' = <<>>
    /\ jspdf' = FALSE
    /\ scripts' = <<>>
    /\ timers' = <<>>
    /\ lastOp' = "pageLoad"
    /\ out' = <<>>
    /\ UNCHANGED <<source, host, storage, storageMode>>

\* the DOMContentLoaded handler
DOMContentLoaded ==
    /\ pc = "loading"
    /\ pc' = "timer"
    /\ doc' = formatPersonnelLists(wrapOrphanedTextNodes(fixEnumerationNumbering(doc)))
    /\ lastOp' = "DOMContentLoaded"
    /\ out' = <<>>
    /\ UNCHANGED <<source, host, form, signatureCanvas, path, isDrawing, storage, storageMode, images, export>>

\* the body of convertChecklistToInteractive
conversion ==
    /\ lastOp' = "convertChecklistToInteractive"
    /\ \E h \in {findChecklistHeading(doc)} :
       \E items \in {IF h = 0 THEN <<>> ELSE extractItems(nodesToHide(doc, h))} :
           IF h = 0 \/ Len(items) = 0
           THEN /\ out' = <<>>
                /\ UNCHANGED <<doc, form, signatureCanvas, images>>
           ELSE \E d2 \in {convertedDocument(doc, h, items)} :
                \E found \in {elementsById(d2, "signature-canvas") > 0}, n \in {numCheckboxes(d2)} :
                \E ld \in {loadChecklistState(seq([i \in 1..n |-> FALSE]), seq([i \in 1..n |-> FALSE]), Today, found)} :
                    /\ doc' = d2
                    /\ signatureCanvas' = found
                    /\ canvas' = BlankCanvas
                    /\ checked' = ld.checked
                    /\ completed' = ld.completed
                    /\ dateValue' = ld.date
                    /\ images' = ld.images
                    /\ out' = <<Effect("getItem", StorageKey)>> \o (IF ld.error THEN <<UncaughtError>> ELSE <<>>)
    /\ UNCHANGED <<source, host, path, isDrawing, storage, storageMode, export>>

\* convertChecklistToInteractive, run by the 100 ms timer
convertChecklistToInteractive == pc = "timer" /\ pc' = "ready" /\ conversion

MaxConversions == 2

\* convertChecklistToInteractive called once more on the page it has
\* already been run on
Reinvoke ==
    /\ pc = "ready"
    /\ elementsById(doc, "interactive-checklist") < MaxConversions
    /\ pc' = pc
    /\ conversion

CheckboxChange_addOnly(i) ==
    /\ formReady
    /\ i \in 1..Len(checked)
    /\ LET cbs == [checked EXCEPT ![i] = ~checked[i]]
           sv  == saveChecklistState(cbs, dateValue, canvas)
       IN  /\ checked' = cbs
           /\ completed' = [completed EXCEPT ![i] = completed[i] \/ cbs[i]]
           /\ storage' = sv.storage
           /\ out' = IF sv.error THEN <<UncaughtError>> ELSE <<>>
    /\ lastOp' = "checkboxChange"
    /\ UNCHANGED <<pc, source, host, doc, dateValue, signatureCanvas, canvas, path, isDrawing, storageMode, images, export>>

\* the change handler of checkbox i, after the browser has toggled it
CheckboxChange(i) ==
    /\ formReady
    /\ i \in 1..Len(checked)
    /\ LET cbs == [checked EXCEPT ![i] = ~checked[i]]
           sv  == saveChecklistState(cbs, dateValue, canvas)
       IN  /\ checked' = cbs
           /\ completed' = [completed EXCEPT ![i] = cbs[i]]
           /\ storage' = sv.storage
           /\ out' = IF sv.error THEN <<UncaughtError>> ELSE <<>>
    /\ lastOp' = "checkboxChange"
    /\ UNCHANGED <<pc, source, host, doc, dateValue, signatureCanvas, canvas, path, isDrawing, storageMode, images, export>>

\* the change handler of the date field, after the user has set it to v
DateChange(v) ==
    /\ formReady
    /\ v # dateValue
    /\ LET sv == saveChecklistState(checked, v, canvas)
       IN  /\ dateValue' = v
           /\ storage' = sv.storage
           /\ out' = IF sv.error THEN <<UncaughtError>> ELSE <<>>
    /\ lastOp' = "dateChange"
    /\ UNCHANGED <<pc, source, host, doc, checked, completed, signatureCanvas, canvas, path, isDrawing, storageMode, images, export>>

\* startDrawing
startDrawing(clientX) ==
    /\ isDrawing' = TRUE
    /\ path' = moveTo(EmptyPath, getMousePos(clientX))
    /\ out' = <<>>
    /\ UNCHANGED <<pc, source, host, doc, form, signatureCanvas, storage, storageMode, images, export>>

\* draw
draw(clientX) ==
    /\ IF ~isDrawing
       THEN UNCHANGED <<path, canvas>>
       ELSE /\ path' = lineTo(path, getMousePos(clientX))
            /\ canvas' = stroke(canvas, path')
    /\ out' = <<>>
    /\ UNCHANGED <<pc, source, host, doc, checked, completed, dateValue, signatureCanvas, isDrawing, storage, storageMode, images, export>>

stopDrawing_always ==
    /\ LET sv == saveChecklistState(checked, dateValue, canvas)
       IN  /\ isDrawing' = FALSE
           /\ storage' = sv.storage
           /\ out' = IF sv.error THEN <<UncaughtError>> ELSE <<>>
    /\ UNCHANGED <<pc, source, host, doc, form, signatureCanvas, path, storageMode, images, export>>

\* stopDrawing
stopDrawing ==
    /\ IF isDrawing
       THEN LET sv == saveChecklistState(checked, dateValue, canvas)
            IN  /\ isDrawing' = FALSE
                /\ storage' = sv.storage
                /\ out' = IF sv.error THEN <<UncaughtError>> ELSE <<>>
       ELSE /\ out' = <<>>
            /\ UNCHANGED <<isDrawing, storage>>
    /\ UNCHANGED <<pc, source, host, doc, form, signatureCanvas, path, storageMode, images, export>>

canvasReady == formReady /\ signatureCanvas

MouseDown(x) == canvasReady /\ startDrawing(x) /\ lastOp' = "startDrawing"

MouseMove(x) == canvasReady /\ draw(x) /\ lastOp' = "draw"

MouseUp == canvasReady /\ stopDrawing /\ lastOp' = "stopDrawing"

MouseOut == canvasReady /\ stopDrawing /\ lastOp' = "stopDrawing"

\* new MouseEvent(type, init): clientX is 0 unless init gives it
MouseEvent(type, init) ==
    [type |-> type, clientX |-> IF "clientX" \in DOMAIN init THEN init.clientX ELSE 0]

\* signatureCanvas.dispatchEvent(e): the listener of the event's type runs
dispatchEvent(e) ==
    CASE e.type = "mousedown" -> startDrawing(e.clientX)
      [] e.type = "mousemove" -> draw(e.clientX)
      [] e.type = "mouseup"   -> stopDrawing

\* the touch lists of an event: the first contact alone, or with a second
\* finger on the first pixel
TouchLists(x) == {<<x>>, <<x, RectLeft + 1>>}

touchstart_lastTouch(touches) ==
    dispatchEvent(MouseEvent("mousedown", [clientX |-> touches[Len(touches)]]))

\* the touchstart listener
touchstart(touches) ==
    dispatchEvent(MouseEvent("mousedown", [clientX |-> touches[1]]))

\* the touchmove listener
touchmove(touches) ==
    dispatchEvent(MouseEvent("mousemove", [clientX |-> touches[1]]))

\* the touchend listener
touchend ==
    dispatchEvent(MouseEvent("mouseup", <<>>))

TouchStart(x) == canvasReady /\ (\E touches \in TouchLists(x) : touchstart(touches)) /\ lastOp' = "touchstart"

TouchMove(x) == canvasReady /\ (\E touches \in TouchLists(x) : touchmove(touches)) /\ lastOp' = "touchmove"

TouchEnd == canvasReady /\ touchend /\ lastOp' = "touchend"

clearSignature_keep ==
    /\ formReady
    /\ IF signatureCanvas
       THEN LET sv == saveChecklistState(checked, dateValue, canvas)
            IN  /\ canvas' = canvas
                /\ storage' = sv.storage
                /\ out' = IF sv.error THEN <<UncaughtError>> ELSE <<>>
       ELSE /\ out' = <<>>
            /\ UNCHANGED <<canvas, storage>>
    /\ lastOp' = "clearSignature"
    /\ UNCHANGED <<pc, source, host, doc, checked, completed, dateValue, signatureCanvas, path, isDrawing, storageMode, images, export>>

\* clearSignature, the click handler of the clear button
clearSignature ==
    /\ formReady
    /\ IF signatureCanvas
       THEN LET sv == saveChecklistState(checked, dateValue, BlankCanvas)
            IN  /\ canvas' = BlankCanvas
                /\ storage' = sv.storage
                /\ out' = IF sv.error THEN <<UncaughtError>> ELSE <<>>
       ELSE /\ out' = <<>>
            /\ UNCHANGED <<canvas, storage>>
    /\ lastOp' = "clearSignature"
    /\ UNCHANGED <<pc, source, host, doc, checked, completed, dateValue, signatureCanvas, path, isDrawing, storageMode, images, export>>

\* img.onload of the image loadChecklistState created
ImageLoad ==
    /\ pc = "ready"
    /\ images # <<>>
    /\ canvas' = drawImage(canvas, Head(images))
    /\ images' = Tail(images)
    /\ lastOp' = "img.onload"
    /\ out' = <<>>
    /\ UNCHANGED <<pc, source, host, doc, checked, completed, dateValue, signatureCanvas, path, isDrawing, storage, storageMode, export>>

EmailClick_fillsDate ==
    /\ formReady
    /\ Len(scripts) + Len(timers) < MaxPending
    /\ LET r == emailChecklist
       IN  /\ out' = r.out
           /\ jspdf' = r.jspdf
           /\ scripts' = r.scripts
           /\ timers' = r.timers
           /\ dateValue' = IF r.out = <<Alert(MsgDate)>> THEN Today ELSE dateValue
    /\ lastOp' = "emailChecklist"
    /\ UNCHANGED <<pc, source, host, doc, checked, completed, canvas, signatureCanvas, path, isDrawing, storage, storageMode, images>>

\* the click handler of the email button
EmailClick ==
    /\ formReady
    /\ Len(scripts) + Len(timers) < MaxPending
    /\ LET r == emailChecklist
       IN  /\ out' = r.out
           /\ jspdf' = r.jspdf
           /\ scripts' = r.scripts
           /\ timers' = r.timers
    /\ lastOp' = "emailChecklist"
    /\ UNCHANGED <<pc, source, host, doc, form, signatureCanvas, path, isDrawing, storage, storageMode, images>>

\* script.onload: the library is there, the certificate is rendered
ScriptLoad ==
    /\ pc = "ready"
    /\ scripts # <<>>
    /\ LET r == createPDF(Head(scripts))
       IN  /\ out' = r.out
           /\ timers' = r.timers
    /\ jspdf' = TRUE
    /\ scripts' = Tail(scripts)
    /\ lastOp' = "script.onload"
    /\ UNCHANGED <<pc, source, host, doc, form, signatureCanvas, path, isDrawing, storage, storageMode, images>>

ScriptError_both ==
    /\ pc = "ready"
    /\ scripts # <<>>
    /\ LET r == fallbackToPrint(Head(scripts))
           c == createPDF(Head(scripts))
       IN  /\ out' = <<Alert(MsgNoLibrary)>> \o r.out \o c.out
           /\ timers' = r.timers
    /\ scripts' = Tail(scripts)
    /\ lastOp' = "script.onerror"
    /\ UNCHANGED <<pc, source, host, doc, form, signatureCanvas, path, isDrawing, storage, storageMode, images, jspdf>>

\* script.onerror: the print fallback
ScriptError ==
    /\ pc = "ready"
    /\ scripts # <<>>
    /\ LET r == fallbackToPrint(Head(scripts))
       IN  /\ out' = <<Alert(MsgNoLibrary)>> \o r.out
           /\ timers' = r.timers
    /\ scripts' = Tail(scripts)
    /\ lastOp' = "script.onerror"
    /\ UNCHANGED <<pc, source, host, doc, form, signatureCanvas, path, isDrawing, storage, storageMode, images, jspdf>>

\* a 500 ms timer fires: the mail link after a download, or the print
\* prompt of the fallback
TimerFires ==
    /\ pc = "ready"
    /\ timers # <<>>
    /\ LET t == Head(timers)
       IN  IF t.fn = "mailto"
           THEN out' = << [Effect("mailto", MailtoPrefix \o <<"Please find the signed checklist PDF attached to this email.">>) EXCEPT !.date = t.date] >>
           ELSE \E yes \in BOOLEAN :
                    out' = <<Effect("confirm", <<"Would you like to print/save this page as PDF to attach to the email?">>)>>
                           \o (IF yes THEN <<Effect("print", <<>>)>> ELSE <<>>)
    /\ timers' = Tail(timers)
    /\ lastOp' = "timer"
    /\ UNCHANGED <<pc, source, host, doc, form, signatureCanvas, path, isDrawing, storage, storageMode, images, jspdf, scripts>>

DateInputs == ValidDates \cup {<<>>}

\* the form and its persistence over page loads
Next ==
    \/ PageLoad
    \/ DOMContentLoaded
    \/ convertChecklistToInteractive
    \/ \E i \in 1..Len(checked) : CheckboxChange(i)
    \/ \E v \in DateInputs : DateChange(v)
    \/ \E x \in ClientXs : MouseDown(x)
    \/ \E x \in ClientXs : MouseMove(x)
    \/ MouseUp
    \/ clearSignature
    \/ MouseOut
    \/ ImageLoad

Spec == Init /\ [][Next]_vars

\* the signature canvas under mouse and touch input, on a page whose slot
\* is empty or holds an earlier signature
InitDraw ==
    /\ source = "checklist2"
    /\ FreshPage
    /\ storageMode = "ok"
    /\ storage \in {Missing, SavedEarlier}

NextDraw ==
    \/ PageLoad
    \/ DOMContentLoaded
    \/ convertChecklistToInteractive
    \/ \E x \in ClientXs : MouseDown(x)
    \/ \E x \in ClientXs : MouseMove(x)
    \/ MouseUp
    \/ MouseOut
    \/ \E x \in ClientXs : TouchStart(x)
    \/ \E x \in ClientXs : TouchMove(x)
    \/ TouchEnd
    \/ clearSignature
    \/ ImageLoad

SpecDraw == InitDraw /\ [][NextDraw]_vars

\* the form and the certificate export within one page load, the
\* signature a dot at the first pixel
NextExport ==
    \/ DOMContentLoaded
    \/ convertChecklistToInteractive
    \/ \E i \in 1..Len(checked) : CheckboxChange(i)
    \/ \E v \in DateInputs : DateChange(v)
    \/ MouseDown(RectLeft + 1)
    \/ MouseMove(RectLeft + 1)
    \/ MouseUp
    \/ clearSignature
    \/ EmailClick
    \/ ScriptLoad
    \/ ScriptError
    \/ TimerFires

SpecExport == InitExport /\ [][NextExport]_vars

\* the conversion of generated exports, and its repetition
NextDoc ==
    \/ DOMContentLoaded
    \/ convertChecklistToInteractive
    \/ Reinvoke

SpecDoc == InitDoc /\ [][NextDoc]_vars

page == <<pc, source, doc, checked, completed, dateValue, signatureCanvas, canvas, path, isDrawing, storage, storageMode, images, jspdf, scripts, timers, out>>

\* main runs its next function
SetupStep ==
    /\ host.step \in {Steps[i] : i \in 1..(Len(Steps) - 1)}
    /\ \E h \in {runStep(host)} :
          host' = IF h.step = "exit 1" THEN h ELSE [h EXCEPT !.step = stepAfter(host.step)]
    /\ lastOp' = host.step
    /\ UNCHANGED page

\* the script is started again, in a new shell: a conda that was only
\* hooked into the shell of the last run may or may not be on the PATH
main ==
    /\ host.step = "verify_installation"
    /\ host.run < MaxRuns
    /\ \E keep \in BOOLEAN :
          host' = [host EXCEPT !.run = @ + 1,
                               !.step = Steps[1],
                               !.installs = <<>>,
                               !.created = 0,
                               !.present = IF keep \/ "file:~/miniconda3/bin/conda" \notin @ THEN @ ELSE @ \ {"cmd:conda"}]
    /\ lastOp' = "main"
    /\ UNCHANGED page

\* the first run, on a macOS, Ubuntu or other Linux machine
InitSetup ==
    /\ source = "none"
    /\ doc = <<>>
    /\ pc = "loading"
    /\ checked = <<>>
    /\ completed = <<>>
    /\ dateValue = <<>>
    /\ signatureCanvas = FALSE
    /\ canvas = BlankCanvas
    /\ path = EmptyPath
    /\ isDrawing = FALSE
    /\ images = <<>>
    /\ jspdf = FALSE
    /\ scripts = <<>>
    /\ timers = <<>>
    /\ lastOp = "none"
    /\ out = <<>>
    /\ storageMode = "ok"
    /\ storage = Missing
    /\ \E os \in Platforms, facts \in SUBSET InitialFacts :
          /\ os # "macos" => facts \cap {"cmd:brew", "app:Slack"} = {}
          /\ "env:cdl" \in facts => "cmd:conda" \in facts
          /\ host = [os |-> os, present |-> facts, run |-> 1, step |-> Steps[1], installs |-> <<>>, created |-> 0]

NextSetup ==
    \/ SetupStep
    \/ main

SpecSetup == InitSetup /\ [][NextSetup]_vars

\* the DOMContentLoaded listener of the generator with slug ids
TocWithSlugIds ==
    /\ pc = "loading"
    /\ pc' = "ready"
    /\ doc' = withSlugIds(doc)
    /\ lastOp' = "toc with slug ids"
    /\ out' = <<>>
    /\ UNCHANGED <<source, host, form, signatureCanvas, path, isDrawing, storage, storageMode, images, export>>

\* the DOMContentLoaded listener of toc.js
TocAppended ==
    /\ pc = "loading"
    /\ pc' = "ready"
    /\ doc' = appended(doc)
    /\ lastOp' = "toc.js"
    /\ out' = <<>>
    /\ UNCHANGED <<source, host, form, signatureCanvas, path, isDrawing, storage, storageMode, images, export>>

\* pages with headings, a page including one generator or the other
InitToc ==
    /\ source = "toc"
    /\ doc \in TocDocuments
    /\ FreshState
    /\ storageMode = "ok"
    /\ storage = Missing

NextToc ==
    \/ TocWithSlugIds
    \/ TocAppended

SpecToc == InitToc /\ [][NextToc]_vars

\* fixEnumerationNumbering, called on the document as it stands
FixEnumeration ==
    /\ pc = "loading"
    /\ doc' = fixEnumerationNumbering(doc)
    /\ lastOp' = "fixEnumerationNumbering"
    /\ out' = <<>>
    /\ UNCHANGED <<pc, source, host, form, signatureCanvas, path, isDrawing, storage, storageMode, images, export>>

\* pages with description lists, before the document-ready handler
InitDt ==
    /\ source = "numbered"
    /\ doc \in NumberedDocuments
    /\ FreshState
    /\ storageMode = "ok"
    /\ storage = Missing

NextDt == FixEnumeration

SpecDt == InitDt /\ [][NextDt]_vars

\* the conversion of exports with wrapped texts, formulas and glyphs
InitItems ==
    /\ source = "generated"
    /\ doc \in ItemDocuments
    /\ FreshState
    /\ storageMode = "ok"
    /\ storage = Missing

NextItems ==
    \/ DOMContentLoaded
    \/ convertChecklistToInteractive

SpecItems == InitItems /\ [][NextItems]_vars

\* --------------------------------------------------------------- claims

everyBoxChecked == \A i \in 1..Len(checked) : checked[i]

canvasHasInk == \E p \in Pixels : canvas[p] > 0

blocked(msg) == out = <<Alert(msg)>>

exportStarted == scripts' # scripts \/ timers' # timers \/ \E k \in 1..Len(out') : out'[k].kind = "download"

\* the record a save of the form as it stands writes
formRecord == Stored(stringifyState([checkboxes |-> checked, date |-> dateValue, signature |-> toDataURL(canvas)]))

formDefaults ==
    /\ \A i \in 1..Len(checked) : ~checked[i] /\ ~completed[i]
    /\ dateValue = Today
    /\ canvas = BlankCanvas
    /\ images = <<>>

noUncaughtError == \A k \in 1..Len(out) : out[k].kind # "error"

\* no h2 of the document has both words in its lower-cased text
noMatchingHeading ==
    \A i \in 1..Len(doc) :
        doc[i].tag = "H2"
        => LET text == toLowerCase(textContent(doc[i]))
           IN  ~(includes(text, StrChecklist) /\ includes(text, StrSignature))

\* C1: a click on the email button with some checkbox unchecked shows the
\* 'check all items' message and nothing else: no script load, no
\* download, no timer for the mail link, whatever the signature and date.
C1_BlockedWhenUnchecked ==
    [][(lastOp' = "emailChecklist" /\ ~everyBoxChecked)
        => (blocked(MsgCheckAll)' /\ UNCHANGED <<jspdf, scripts, timers>>)]_vars

C1_Witness ==
    /\ lastOp = "emailChecklist"
    /\ blocked(MsgCheckAll)
    /\ checked = <<TRUE, FALSE>>
    /\ canvasHasInk
    /\ dateValue = OtherDate

\* C2: with every checkbox checked and a canvas without any pixel of
\* alpha above 0, the click shows the signature message and starts no
\* export, whatever the date.
C2_BlockedWithoutSignature ==
    [][(lastOp' = "emailChecklist" /\ everyBoxChecked /\ signatureCanvas /\ ~canvasHasInk)
        => (blocked(MsgSignature)' /\ UNCHANGED <<jspdf, scripts, timers>>)]_vars

C2_Witness ==
    /\ lastOp = "emailChecklist"
    /\ blocked(MsgSignature)
    /\ everyBoxChecked
    /\ ~canvasHasInk
    /\ dateValue = Today

\* C3: the click checks items, then signature, then date, shows only the
\* message of the first check that fails, and starts the export exactly
\* when all three hold.
C3_ValidationOrder ==
    [][lastOp' = "emailChecklist"
        => /\ ~everyBoxChecked => blocked(MsgCheckAll)'
           /\ (everyBoxChecked /\ ~canvasHasInk) => blocked(MsgSignature)'
           /\ (everyBoxChecked /\ canvasHasInk /\ dateValue = <<>>) => blocked(MsgDate)'
           /\ exportStarted <=> (everyBoxChecked /\ canvasHasInk /\ dateValue # <<>>)]_vars

C3_Witness ==
    /\ lastOp = "emailChecklist"
    /\ blocked(MsgDate)
    /\ everyBoxChecked
    /\ canvasHasInk
    /\ dateValue = <<>>

\* C4: a click that ends in a validation message leaves the checkboxes,
\* the 'completed' marks, the date, the canvas and the stored record as
\* they were.
C4_FailedValidationChangesNothing ==
    [][(lastOp' = "emailChecklist" /\ \E k \in 1..Len(out') : out'[k].kind = "alert")
        => UNCHANGED <<checked, completed, dateValue, canvas, path, isDrawing, storage, doc>>]_vars

C4_Witness ==
    /\ lastOp = "emailChecklist"
    /\ blocked(MsgDate)
    /\ storage = formRecord
    /\ everyBoxChecked

\* the well-formed states of a form of n items
WellFormedStates(n) ==
    [checkboxes : [1..n -> BOOLEAN], date : ValidDates, signature : {toDataURL(b) : b \in [Pixels -> {0, 255}]}]

\* C5: when the slot holds what a save of a well-formed state s wrote, the
\* load on a freshly built form of as many items gives s back: the
\* checkboxes and the date at once, the signature as the image in flight,
\* on the canvas once that image has loaded.
C5_RoundTrip ==
    [][(lastOp' \in {"convertChecklistToInteractive", "img.onload"} /\ storageMode # "unavailable")
        => \A s \in WellFormedStates(Len(checked')) :
             storage = Stored(stringifyState(s))
             => /\ (lastOp' = "convertChecklistToInteractive" /\ formReady')
                   => /\ checked' = s.checkboxes
                      /\ dateValue' = s.date
                      /\ Len(images') = 1
                      /\ toDataURL(drawImage(canvas', images'[1])) = s.signature
                /\ (lastOp = "convertChecklistToInteractive" /\ lastOp' = "img.onload")
                   => /\ checked' = s.checkboxes
                      /\ dateValue' = s.date
                      /\ toDataURL(canvas') = s.signature]_vars

C5_Witness ==
    /\ lastOp = "img.onload"
    /\ storageMode = "ok"
    /\ checked = <<TRUE, FALSE>>
    /\ dateValue = OtherDate
    /\ canvas = [p \in Pixels |-> IF p = 1 THEN 255 ELSE 0]
    /\ storage = formRecord

\* C6: a checkbox toggle, a date change, the end of a stroke and a clear
\* each leave in the slot, when storage works, the record of the form as
\* it stands after the event.
C6_EveryEventSaves ==
    [][(/\ storageMode = "ok"
        /\ \/ lastOp' \in {"checkboxChange", "dateChange", "clearSignature"}
           \/ (lastOp' = "stopDrawing" /\ isDrawing))
        => storage' = formRecord']_vars

C6_Witness ==
    /\ lastOp = "stopDrawing"
    /\ storageMode = "ok"
    /\ canvasHasInk
    /\ checked = <<FALSE, TRUE>>
    /\ storage = formRecord

\* C7: with the key missing or its value not parsable the conversion
\* leaves the new form at its defaults (nothing checked, today's date,
\* blank canvas, no image in flight) and no exception leaves the load.
C7_MissingOrUnparsable ==
    (/\ lastOp = "convertChecklistToInteractive"
     /\ formReady
     /\ storage \in {Missing, NotJSON, TruncatedJSON})
    => (formDefaults /\ noUncaughtError)

C7_Witness ==
    /\ lastOp = "convertChecklistToInteractive"
    /\ formReady
    /\ storageMode = "ok"
    /\ storage = TruncatedJSON
    /\ formDefaults

\* C8: a record whose 'checkboxes' is a number is treated as absent: the
\* load throws nothing and the form stays at its defaults.
C8_WrongShapeIgnored ==
    (/\ lastOp = "convertChecklistToInteractive"
     /\ formReady
     /\ storageMode # "unavailable"
     /\ storage = WrongShape)
    => (formDefaults /\ noUncaughtError)

\* C9: when the write to the slot fails, the event that asked for it still
\* ends without an exception and with its effect on the form in place; the
\* slot keeps what it held.
C9_SaveFailureSwallowed ==
    [][(storageMode # "ok" /\ lastOp' \in {"checkboxChange", "dateChange", "stopDrawing", "clearSignature"})
        => /\ noUncaughtError'
           /\ storage' = storage
           /\ lastOp' = "checkboxChange"
              => \E i \in 1..Len(checked) :
                    /\ checked' = [checked EXCEPT ![i] = ~checked[i]]
                    /\ completed'[i] = checked'[i]
           /\ lastOp' = "dateChange" => dateValue' # dateValue
           /\ lastOp' = "stopDrawing" => ~isDrawing'
           /\ lastOp' = "clearSignature" => canvas' = BlankCanvas]_vars

C9_Witness ==
    /\ lastOp = "checkboxChange"
    /\ storageMode = "full"
    /\ storage = Missing
    /\ checked = <<TRUE, FALSE>>
    /\ completed = <<TRUE, FALSE>>
    /\ noUncaughtError

\* C10, as stated: once the page script has run on a document without a
\* matching heading, the document is what the server sent.
C10_NoMutationAtAll ==
    (pc = "ready" /\ findChecklistHeading(SourceDocument(source)) = 0)
    => doc = SourceDocument(source)

\* C10, amended: on a document without a matching heading
\* convertChecklistToInteractive changes nothing: the document, the form
\* state, the canvas variable and the slot stay as they were and the slot
\* is not read.  (The passes of the document-ready handler before it may
\* have changed the document.)
C10_ConvertLeavesDocument ==
    [][(lastOp' = "convertChecklistToInteractive" /\ noMatchingHeading)
        => (out' = <<>> /\ ~signatureCanvas'
            /\ UNCHANGED <<doc, checked, completed, dateValue, canvas, images, storage>>)]_vars

C10_Witness ==
    /\ lastOp = "convertChecklistToInteractive"
    /\ source = "nearmiss"
    /\ noMatchingHeading
    /\ doc # SourceDocument(source)

\* ----------------------------------------- claims about the conversion

\* the last h2 of d with both words in its text; 0 when there is none
lastHeadingOf(d) ==
    LET hs == {i \in 1..Len(d) :
                 /\ d[i].tag = "H2"
                 /\ includes(toLowerCase(textContent(d[i])), StrChecklist)
                 /\ includes(toLowerCase(textContent(d[i])), StrSignature)}
    IN  IF hs = {} THEN 0 ELSE CHOOSE i \in hs : \A j \in hs : i >= j

\* how many h2 of d have both words in their text
numMatchingHeadings(d) ==
    Cardinality({i \in 1..Len(d) :
                   /\ d[i].tag = "H2"
                   /\ includes(toLowerCase(textContent(d[i])), StrChecklist)
                   /\ includes(toLowerCase(textContent(d[i])), StrSignature)})

\* the first TABLE or H2 after position h; one past the end of d when
\* there is none
boundaryOf(d, h) ==
    LET ends == {j \in (h + 1)..Len(d) : d[j].tag \in {"TABLE", "H2"}}
    IN  IF ends = {} THEN Len(d) + 1 ELSE CHOOSE j \in ends : \A k \in ends : j <= k

MarkerTags == {"MJX-CONTAINER", "MATH"}

\* the text from position j up to the next marker or the boundary b, the
\* DIVs left out
RECURSIVE textUpTo(_, _, _)
textUpTo(d, j, b) ==
    IF j >= b \/ d[j].tag \in MarkerTags THEN <<>>
    ELSE (IF d[j].tag = "DIV" THEN <<>> ELSE textContent(d[j])) \o textUpTo(d, j + 1, b)

candidateText(d, m, b) == trim(textUpTo(d, m + 1, b))

\* the checklist region of the document: the heading h, the boundary b,
\* the markers between them and those of the markers whose text is longer
\* than the threshold (a set of one record; empty without a heading)
checklistRegion ==
    UNION {UNION {UNION {
        {[h |-> h, b |-> b, markers |-> ms, long |-> {m \in ms : Len(candidateText(doc, m, b)) > MinItemLen}]}
        : ms \in {{j \in (h + 1)..(b - 1) : doc[j].tag \in MarkerTags}}}
        : b \in {boundaryOf(doc, h)}}
        : h \in {lastHeadingOf(doc)} \ {0}}

\* the region from position j to the boundary b as the markup of one
\* paragraph, a white square for each marker
RECURSIVE glyphText(_, _, _)
glyphText(d, j, b) ==
    IF j >= b THEN <<>>
    ELSE (IF d[j].tag \in MarkerTags THEN <<"u25A1">> ELSE textContent(d[j])) \o glyphText(d, j + 1, b)

\* the glyphs of t whose text, up to the next glyph or the end, is no
\* longer than ten characters once cleaned
shortGlyphs(t, G) ==
    {g \in G :
        LET later == {x \in G : x > g}
            next  == IF later = {} THEN Len(t) + 1 ELSE CHOOSE x \in later : \A y \in later : x <= y
        IN  Len(cleanPart(SubSeq(t, g + 1, next - 1))) <= MinSplitLen}

\* the rows of the first interactive container of a document
itemRows(d) ==
    LET at == CHOOSE i \in 1..Len(d) : d[i].id = "interactive-checklist" /\ \A j \in 1..(i - 1) : d[j].id # "interactive-checklist"
    IN  SelectSeq(d[at].kids, LAMBDA k : k.cls = "checklist-item")

\* the first run of convertChecklistToInteractive on a page
firstConversion == pc = "timer" /\ lastOp' = "convertChecklistToInteractive"

\* C11: with several matching headings the container goes right after the
\* last one, and everything up to and including that heading, the earlier
\* matching headings and their regions among it, stays as it was.
C11_LastHeadingWins ==
    [][firstConversion
        => \A r \in checklistRegion :
             (numMatchingHeadings(doc) > 1 /\ r.long # {})
             => /\ doc'[r.h + 1].id = "interactive-checklist"
                /\ SubSeq(doc', 1, r.h) = SubSeq(doc, 1, r.h)
                /\ elementsById(doc', "interactive-checklist") = 1]_vars

C11_Witness ==
    /\ lastOp = "convertChecklistToInteractive"
    /\ numMatchingHeadings(doc) > 1
    /\ doc[lastHeadingOf(doc) + 1].id = "interactive-checklist"
    /\ doc[2].tag = "MJX-CONTAINER"
    /\ ~doc[2].hidden
    /\ ~doc[4].hidden

\* C12: the conversion makes one checkbox per marker of the region whose
\* text, up to the next marker or the boundary, is longer than the
\* threshold: the markers minus the short candidates.  Text before the
\* first marker is in no label; the text after the last marker is the last
\* label when it is long enough.  The earlier split variant, given the
\* region as one paragraph, likewise yields the glyphs minus the parts no
\* longer than its own threshold.
C12_ItemCount ==
    [][firstConversion
        => \A r \in checklistRegion :
             /\ numCheckboxes(doc') = Cardinality(r.markers) - Cardinality(r.markers \ r.long)
             /\ r.long # {}
                => \A rows \in {itemRows(doc')} :
                   \A k \in 1..Len(rows) :
                      \E m \in r.long :
                          /\ Cardinality({x \in r.long : x <= m}) = k
                          /\ textContent(rows[k].kids[2]) = trim(collapseWhitespace(candidateText(doc, m, r.b)))
             /\ \A t \in {glyphText(doc, r.h + 1, r.b)} :
                \A G \in {{i \in 1..Len(t) : t[i] \in Glyphs}} :
                   Len(splitVariantItems(t)) = Cardinality(G) - Cardinality(shortGlyphs(t, G))]_vars

C12_Witness ==
    /\ lastOp = "convertChecklistToInteractive"
    /\ source = "generated"
    /\ numCheckboxes(doc) = 1
    /\ \E i \in 1..Len(doc) :
          /\ doc[i].id = "interactive-checklist"
          /\ Len(doc) >= i + 5
          /\ doc[i + 2].tag = "SPAN" /\ doc[i + 2].kids = <<Txt(itemSource(1))>>
          /\ doc[i + 3].tag = "MJX-CONTAINER"
          /\ doc[i + 4].tag = "MATH"
          /\ doc[i + 5].tag = "SPAN" /\ doc[i + 5].kids = <<Txt(itemSource(4))>>
          /\ textContent(itemRows(doc)[1].kids[2]) = trim(itemSource(4))

\* C13: when the region of the heading yields no item the conversion
\* returns with the document as it was: no container, nothing hidden.
C13_NoItemsNoMutation ==
    [][firstConversion
        => \A r \in checklistRegion :
             r.long = {}
             => /\ doc' = doc
                /\ elementsById(doc', "interactive-checklist") = 0
                /\ ~signatureCanvas'
                /\ out' = <<>>]_vars

C13_Witness ==
    /\ lastOp = "convertChecklistToInteractive"
    /\ pc = "ready"
    /\ elementsById(doc, "interactive-checklist") = 0
    /\ \A j \in 1..Len(doc) : ~doc[j].hidden
    /\ \E r \in checklistRegion :
          /\ r.markers # {}
          /\ \E m \in r.markers : Len(candidateText(doc, m, r.b)) = MinItemLen

\* C14: however often convertChecklistToInteractive has run, the document
\* holds at most one interactive container, one signature canvas and one
\* date field.
C14_Idempotent ==
    /\ elementsById(doc, "interactive-checklist") <= 1
    /\ elementsById(doc, "signature-canvas") <= 1
    /\ elementsById(doc, "signature-date") <= 1

\* C16: the conversion keeps every node of the region: an element is the
\* same element with display none, a non-blank text node is the only child
\* of a hidden span, a blank text node is as it was; the text of the region
\* is what it was.
C16_HiddenNotDeleted ==
    [][firstConversion
        => \A r \in checklistRegion :
             r.long # {}
             => /\ Len(doc') = Len(doc) + 1
                /\ \A j \in (r.h + 1)..(r.b - 1) :
                      /\ textContent(doc'[j + 1]) = textContent(doc[j])
                      /\ isElement(doc[j]) => doc'[j + 1] = [doc[j] EXCEPT !.hidden = TRUE]
                      /\ (isText(doc[j]) /\ trim(doc[j].text) # <<>>)
                         => (doc'[j + 1].tag = "SPAN" /\ doc'[j + 1].hidden /\ doc'[j + 1].kids = <<doc[j]>>)
                      /\ (isText(doc[j]) /\ trim(doc[j].text) = <<>>) => doc'[j + 1] = doc[j]
                /\ \A j \in r.b..Len(doc) : textContent(doc'[j + 1]) = textContent(doc[j])]_vars

C16_Witness ==
    /\ lastOp = "convertChecklistToInteractive"
    /\ source = "generated"
    /\ elementsById(doc, "interactive-checklist") = 1
    /\ Len(doc) >= 6
    /\ doc[1].tag = "H2"
    /\ doc[2].id = "interactive-checklist"
    /\ doc[3] = Txt(<<"\n">>)
    /\ doc[4] = [El("MJX-CONTAINER", "", <<Txt(<<"\\Box">>)>>) EXCEPT !.hidden = TRUE]
    /\ doc[5] = [El("SPAN", "", <<Txt(itemSource(2))>>) EXCEPT !.hidden = TRUE]
    /\ doc[6] = [El("DIV", "", <<Txt(itemSource(3))>>) EXCEPT !.hidden = TRUE]

\* C19, as stated: whatever node ends the region is hidden by the
\* conversion.
C19_TerminatorHidden ==
    [][firstConversion
        => \A r \in checklistRegion :
             (r.long # {} /\ r.b <= Len(doc)) => doc'[r.b + 1].hidden]_vars

\* C19, amended: the region is the siblings after the heading up to the
\* first TABLE or H2; that node and what follows it give no item and keep
\* their content; a TABLE that ends the region is hidden, an H2 that ends it
\* stays as it was.
C19_RegionBoundary ==
    [][firstConversion
        => \A r \in checklistRegion :
             r.long # {}
             => /\ Len(itemRows(doc')) = Cardinality(r.long)
                /\ \A j \in (r.h + 1)..(r.b - 1) : isElement(doc[j]) => doc'[j + 1].hidden
                /\ r.b <= Len(doc)
                   => /\ doc[r.b].tag = "TABLE" => doc'[r.b + 1] = [doc[r.b] EXCEPT !.hidden = TRUE]
                      /\ doc[r.b].tag = "H2" => doc'[r.b + 1] = doc[r.b]
                      /\ \A j \in (r.b + 1)..Len(doc) : doc'[j + 1] = doc[j]]_vars

C19_Witness ==
    /\ lastOp = "convertChecklistToInteractive"
    /\ source = "generated"
    /\ numCheckboxes(doc) = 1
    /\ Len(doc) >= 5
    /\ doc[2].id = "interactive-checklist"
    /\ \E j \in 4..(Len(doc) - 1) :
          /\ doc[j].tag = "H2" /\ ~doc[j].hidden
          /\ doc[j + 1].tag = "P" /\ ~doc[j + 1].hidden
          /\ \A k \in 3..(j - 1) : isElement(doc[k]) => doc[k].hidden

\* ------------------------------------------- claims about the export

numKind(o, kind) == Cardinality({k \in 1..Len(o) : o[k].kind = kind})

\* C15: after clearSignature no pixel of the canvas has alpha above 0 and
\* the record in storage is the one of the form with the blank canvas; a
\* click on the email button right after the clear starts no export, and
\* with every checkbox checked it shows the signature message.
C15_ClearedSignature ==
    [][/\ (lastOp' = "clearSignature" /\ signatureCanvas)
            => (~canvasHasInk' /\ storage' = formRecord')
       /\ (lastOp = "clearSignature" /\ lastOp' = "emailChecklist" /\ signatureCanvas)
            => /\ UNCHANGED <<jspdf, scripts, timers>>
               /\ everyBoxChecked => blocked(MsgSignature)']_vars

\* the signature message after a stroke was drawn and cleared
C15_Witness ==
    /\ lastOp = "emailChecklist"
    /\ blocked(MsgSignature)
    /\ everyBoxChecked
    /\ path.pix # {}
    /\ ~canvasHasInk
    /\ storage = formRecord

\* C17: a click that passes the three checks either renders at once (the
\* library is there: one download, no script load) or starts one script
\* load and nothing else; a script load that settles runs exactly one of
\* the two continuations: onload one download and no mail link of the
\* fallback, onerror the message, the mail link with the instructions
\* and the timer of the print prompt, and no download.
C17_OneContinuation ==
    [][/\ (lastOp' = "emailChecklist" /\ everyBoxChecked /\ canvasHasInk /\ dateValue # <<>>)
            => IF jspdf
               THEN /\ numKind(out', "download") = 1 /\ Len(out') = 1
                    /\ scripts' = scripts
                    /\ Len(timers') = Len(timers) + 1
               ELSE /\ out' = <<>>
                    /\ Len(scripts') = Len(scripts) + 1
                    /\ timers' = timers
       /\ lastOp' = "script.onload"
            => /\ Len(scripts') = Len(scripts) - 1
               /\ numKind(out', "download") = 1 /\ Len(out') = 1
               /\ Len(timers') = Len(timers) + 1
               /\ timers'[Len(timers')].fn = "mailto"
       /\ lastOp' = "script.onerror"
            => /\ Len(scripts') = Len(scripts) - 1
               /\ numKind(out', "download") = 0
               /\ numKind(out', "mailto") = 1 /\ numKind(out', "alert") = 1 /\ Len(out') = 2
               /\ Len(timers') = Len(timers) + 1
               /\ timers'[Len(timers')].fn = "print"
       /\ scripts' # scripts
            => lastOp' \in {"emailChecklist", "script.onload", "script.onerror"}]_vars

\* the fallback has run for a load that failed, the library still absent
C17_Witness ==
    /\ lastOp = "script.onerror"
    /\ ~jspdf
    /\ scripts = <<>>
    /\ numKind(out, "mailto") = 1
    /\ timers # <<>>

\* C18: a render saves the file, named 'lab-manual-checklist-' + the date
\* of the click + '.pdf', and opens no mail link in the same step: it
\* queues the mail link on a timer, and when that timer fires the link
\* carries the date of the file.
C18_DownloadThenMail ==
    [][/\ \A k \in 1..Len(out') :
              out'[k].kind = "download"
              => /\ numKind(out', "mailto") = 0
                 /\ \E dv \in {IF lastOp' = "script.onload" THEN Head(scripts) ELSE dateValue} :
                        /\ out'[k].text = <<"lab-manual-checklist-">> \o dv \o <<".pdf">>
                        /\ timers' = Append(timers, [fn |-> "mailto", date |-> dv])
       /\ (lastOp' = "timer" /\ Head(timers).fn = "mailto")
            => /\ Len(out') = 1
               /\ out'[1].kind = "mailto"
               /\ out'[1].date = Head(timers).date]_vars

\* the mail link of a render made through a script load, opened after the
\* date field was changed
C18_Witness ==
    /\ lastOp = "timer"
    /\ Len(out) = 1
    /\ out[1].kind = "mailto"
    /\ out[1].date = OtherDate
    /\ dateValue # OtherDate
    /\ jspdf

\* ---------------------------------------- claims about the item indices

\* the text of the k-th task of the checklist page, as its label shows it
taskLabel(k) == <<"T", "a", "s", "k", " ", ToString(k), " ">> \o Rep("x", 12)

\* the 'checkboxes' array of the record in the slot, or undefined
storedBoxes(slot) ==
    IF ~slot.present THEN Undefined
    ELSE LET r == parseJSON(slot.text)
         IN  IF r.ok THEN getProp(r.val, <<"checkboxes">>) ELSE Undefined

\* C20: the conversion renders the items in source order, the i-th (from
\* 0) with the checkbox 'checklist-item-<i>', one checkbox per item; a
\* load checks item i exactly when entry i of a stored array is true; and
\* after every toggle the stored array has one entry per item, entry i
\* the checked state of item i.
C20_PositionalCoupling ==
    [][/\ (lastOp' = "convertChecklistToInteractive" /\ formReady')
            => \A rows \in {itemRows(doc')} :
                 /\ Len(checked') = Len(rows)
                 /\ \A i \in 1..Len(rows) :
                       /\ rows[i].kids[1].id = "checklist-item-" \o ToString(i - 1)
                       /\ Len(rows[i].kids) = 2
                       /\ textContent(rows[i].kids[2]) = taskLabel(i)
                 /\ \A boxes \in {storedBoxes(storage)} :
                       (storageMode # "unavailable" /\ boxes.t = "arr")
                       => \A i \in 1..Len(rows) :
                            checked'[i] = (i <= Len(boxes.v) /\ boxes.v[i] = [t |-> "bool", v |-> TRUE])
       /\ (lastOp' = "checkboxChange" /\ storageMode = "ok")
            => \A boxes \in {storedBoxes(storage')} :
                 /\ boxes.t = "arr"
                 /\ Len(boxes.v) = Len(itemRows(doc'))
                 /\ \A i \in 1..Len(boxes.v) : boxes.v[i] = [t |-> "bool", v |-> checked'[i]]]_vars

\* a toggle that leaves only the second item checked
C20_Witness ==
    /\ lastOp = "checkboxChange"
    /\ storageMode = "ok"
    /\ checked = <<FALSE, TRUE>>
    /\ storedBoxes(storage).t = "arr"
    /\ storedBoxes(storage).v = <<[t |-> "bool", v |-> FALSE], [t |-> "bool", v |-> TRUE]>>
    /\ itemRows(doc)[2].kids[1].id = "checklist-item-1"

\* ------------------------------------------- claims about the drawing

\* C22: a touchstart, touchmove or touchend changes the drawing flag, the
\* path, the canvas and the stored record exactly as the mousedown,
\* mousemove or mouseup at the coordinate of the first contact does, and
\* changes nothing else.
C22_TouchAsMouse ==
    [][\A x \in ClientXs :
          /\ (lastOp' = "touchstart" /\ TouchStart(x)) => (canvasReady /\ startDrawing(x))
          /\ (lastOp' = "touchmove" /\ TouchMove(x)) => (canvasReady /\ draw(x))
          /\ (lastOp' = "touchend" /\ TouchEnd) => (canvasReady /\ stopDrawing)]_vars

\* a stroke over both pixels, drawn and ended by touch, is in the slot
C22_Witness ==
    /\ lastOp = "touchend"
    /\ ~isDrawing
    /\ storageMode = "ok"
    /\ \A p \in Pixels : canvas[p] = 255
    /\ path.pix = Pixels
    /\ storage = formRecord

strokeStart == lastOp' \in {"startDrawing", "touchstart"}

strokeMove == lastOp' \in {"draw", "touchmove"}

strokeEnd == lastOp' \in {"stopDrawing", "touchend"}

\* the pixels from the pen's position to the pixel p
segment(p) == {q \in Pixels : (path.cur <= q /\ q <= p) \/ (p <= q /\ q <= path.cur)}

\* C23: a down sets the drawing flag and paints and stores nothing; a
\* move outside a stroke changes neither canvas nor path, a move inside
\* one inks the pixels from the pen's position to the new one, erases
\* none and stores nothing; an up or out during a stroke ends it and
\* stores the form as it stands, an up or out with no stroke in progress
\* changes nothing and stores nothing.
C23_StrokeLifecycle ==
    [][/\ strokeStart => (isDrawing' /\ UNCHANGED <<canvas, storage>>)
       /\ (strokeMove /\ ~isDrawing) => UNCHANGED <<canvas, path, isDrawing, storage>>
       /\ (strokeMove /\ isDrawing)
            => /\ UNCHANGED <<isDrawing, storage>>
               /\ \A q \in Pixels : canvas'[q] >= canvas[q]
               /\ path.cur # 0 => \A q \in segment(path'.cur) : canvas'[q] = 255
       /\ (strokeEnd /\ isDrawing) => (~isDrawing' /\ storage' = formRecord' /\ UNCHANGED <<canvas, path>>)
       /\ (strokeEnd /\ ~isDrawing) => UNCHANGED <<canvas, path, isDrawing, storage>>]_vars

\* an up or out on a form on which no stroke was ever ended: nothing is
\* in the slot
C23_Witness ==
    /\ lastOp = "stopDrawing"
    /\ formReady
    /\ ~isDrawing
    /\ canvas = BlankCanvas
    /\ storage = Missing

\* ------------------------------------------ claims about the form state

\* C27: on the built form an item's div has the class 'completed' exactly
\* when its checkbox is checked, after the load of any stored record and
\* any toggles.
C27_CompletedIffChecked ==
    /\ Len(completed) = Len(checked)
    /\ \A i \in 1..Len(checked) : completed[i] <=> checked[i]

\* the first item unchecked again on a form restored, signature
\* included, from a record with both items checked
C27_Witness ==
    /\ lastOp = "checkboxChange"
    /\ checked = <<FALSE, TRUE>>
    /\ completed = <<FALSE, TRUE>>
    /\ canvasHasInk
    /\ path = EmptyPath

\* ---------------------------------------- claims about the certificate

\* C28: every certificate shows each item of the form with the checked
\* glyph.
C28_CertificateAllChecked ==
    \A k \in 1..Len(out) :
        out[k].kind = "download" => \A i \in 1..Len(checked) : out[k].boxes[i]

\* the 'signature' string of the record in the slot, or undefined
storedSignature(slot) ==
    IF ~slot.present THEN Undefined
    ELSE LET r == parseJSON(slot.text)
         IN  IF r.ok THEN getProp(r.val, <<"signature">>) ELSE Undefined

\* C29: when the record in the slot says the signature is blank and no
\* stroke was begun on this page, the canvas is blank: an image load
\* never paints over a cleared canvas.
C29_ClearedStaysBlank ==
    (/\ formReady
     /\ lastOp = "img.onload"
     /\ path = EmptyPath
     /\ storedSignature(storage) = [t |-> "str", v |-> toDataURL(BlankCanvas)])
    => ~canvasHasInk

\* ------------------------------------------- claims about the labels

\* C30: every label of the interactive checklist is longer than the
\* minimum length.
C30_LabelsLongEnough ==
    formReady => \A rows \in {itemRows(doc)} :
                    \A i \in 1..Len(rows) : Len(textContent(rows[i].kids[2])) > MinItemLen

\* --------------------------------------- claims about the numbering

\* the description list after the fix, for a first dt of the given kids
fixedList(kids) ==
    << El("DL", "",
          << El("DT", "", kids),
             El("DD", "", <<Txt(<<"1", ".", "2", ".", "3", ".">>)>>),
             El("DT", "", <<Txt(<<"6", ".">>)>>) >>) >>

\* C25: a dt whose trimmed text is three or more numbers joined by dots,
\* with any trailing dots, gets the text of its last number and a dot;
\* every other dt and every other node stays as it is; a second call
\* changes nothing.
C25_FixEnumeration ==
    [][lastOp' = "fixEnumerationNumbering"
        => /\ \A c \in DtCases :
                 doc = NumberedDocument(c)
                 => doc' = fixedList(IF Len(c.nums) >= 3
                                     THEN <<Txt(c.nums[Len(c.nums)] \o <<".">>)>>
                                     ELSE <<Txt(<<"\n", " ">> \o caseText(c) \o <<"\n">>)>>)
           /\ lastOp = "fixEnumerationNumbering" => doc' = doc]_vars

\* a dt of dotted numbers ending in 1 has become '1.'
C25_Witness ==
    /\ lastOp = "fixEnumerationNumbering"
    /\ doc = fixedList(<<Txt(<<"1", ".">>)>>)

\* -------------------------------- claims about the table of contents

\* the id a chapter heading of the given kind has after the generator
\* with slug ids, as the k-th chapter heading from 0
slugIdOf(kind, k) ==
    CASE kind = "id"      -> "x1-2000"
      [] kind = "text"    -> "2-lab-overview"
      [] kind = "symbols" -> "section-" \o ToString(k)

\* the id it has in the page as served
servedIdOf(kind) == IF kind = "id" THEN "x1-2000" ELSE ""

headingText(kind) ==
    CASE kind = "id"      -> <<"I", "n", "t", "r", "o">>
      [] kind = "text"    -> <<" ", "2", ".", " ", "L", "a", "b", " ", "O", "v", "e", "r", "v", "i", "e", "w", "!">>
      [] kind = "symbols" -> <<"*", "*", "*">>

\* the kinds of the chapter headings among the headings, in order
chaptersOf(kinds) == SelectSeq(kinds, LAMBDA kind : kind # "other")

\* one li with one link per chapter heading, given the ids
linksOf(kinds, slugged) ==
    LET ch == chaptersOf(kinds)
    IN  [k \in 1..Len(ch) |->
            [tag |-> "LI", text |-> <<>>, cls |-> "", id |-> "", hidden |-> FALSE,
             kids |-> << [tag |-> "A", text |-> <<>>, cls |-> "", id |-> "", hidden |-> FALSE,
                          kids |-> <<Txt(headingText(ch[k]))>>,
                          href |-> "#" \o (IF slugged THEN slugIdOf(ch[k], k - 1) ELSE servedIdOf(ch[k]))] >>]]

\* the headings of the page with the ids the generator with slug ids
\* leaves
sluggedHeadings(kinds) ==
    [i \in 1..Len(kinds) |->
        IF kinds[i] = "other" THEN tocHeading(kinds[i])
        ELSE [tocHeading(kinds[i]) EXCEPT !.id = slugIdOf(kinds[i], Len(chaptersOf(SubSeq(kinds, 1, i))) - 1)]]

\* C26 as stated: after either generator the list of a page with a
\* 'toc-list' holds exactly one link per chapter heading, in order, and
\* every chapter heading has an id.
C26_ExactlyOneLinkEach ==
    (lastOp \in {"toc with slug ids", "toc.js"} /\ doc[1].id = "toc-list")
    => /\ Len(doc[1].kids) = Cardinality({i \in 2..Len(doc) : doc[i].cls = "chapterHead"})
       /\ \A i \in 2..Len(doc) : doc[i].cls = "chapterHead" => doc[i].id # ""

\* C26: the generator with slug ids replaces the entries of 'toc-list' by
\* one link per h2.chapterHead, in document order, with the heading's
\* text and '#' + its id, a heading without an id first given the slug
\* of its text or 'section-' + its index; the generator of toc.js
\* appends such links after the entries already there and gives no
\* ids, the link of a heading without an id being '#'. Neither changes
\* anything else, nor anything at all without a 'toc-list'.
C26_TocGenerated ==
    [][\A hasToc \in BOOLEAN, stale \in BOOLEAN, kinds \in HeadingLists :
          doc = TocDocument(hasToc, stale, kinds)
          => /\ (lastOp' = "toc with slug ids" /\ hasToc)
                  => doc' = << [doc[1] EXCEPT !.kids = linksOf(kinds, TRUE)] >> \o sluggedHeadings(kinds)
             /\ (lastOp' = "toc.js" /\ hasToc)
                  => doc' = << [doc[1] EXCEPT !.kids = doc[1].kids \o linksOf(kinds, FALSE)] >> \o SubSeq(doc, 2, Len(doc))
             /\ ~hasToc => doc' = doc]_vars

\* the stale entry is gone and the three chapter headings are linked by
\* their id, their slug and their index
C26_Witness ==
    /\ lastOp = "toc with slug ids"
    /\ Len(doc) = 4
    /\ Len(doc[1].kids) = 3
    /\ doc[1].kids[1].kids[1].href = "#section-0"
    /\ doc[1].kids[2].kids[1].href = "#x1-2000"
    /\ doc[1].kids[3].kids[1].href = "#2-lab-overview"
    /\ doc[4].id = "2-lab-overview"

\* ------------------------------------------ claims about the setup

\* C21: a run of the script after the first makes no installation and
\* creates no 'cdl' environment.
C21_SecondRunInstallsNothing ==
    host.run >= 2 => (host.installs = <<>> /\ host.created = 0)

\* the characters of the checkbox family in the hidden nodes of a document
hiddenGlyphs(d) ==
    LET c[i \in 0..Len(d)] ==
            IF i = 0 THEN 0
            ELSE c[i - 1] + (IF d[i].hidden
                             THEN Cardinality({k \in 1..Len(textContent(d[i])) : textContent(d[i])[k] \in Glyphs})
                             ELSE 0)
    IN  c[Len(d)]

\* C24: the items are what lies between the glyphs U+2610, U+2611,
\* U+2612 and U+25A1 of the region: no label holds one of the glyphs, and
\* there are no more labels than glyphs.
C24_GlyphsDelimitItems ==
    formReady => \A rows \in {itemRows(doc)} :
                    /\ Len(rows) <= hiddenGlyphs(doc)
                    /\ \A i \in 1..Len(rows) :
                          \A k \in 1..Len(textContent(rows[i].kids[2])) : textContent(rows[i].kids[2])[k] \notin Glyphs

====
